---- MODULE Spec2Model ----
(***************************************************************************)
(* Model of mwtb47/UK-COVID-website:                                        *)
(*   main.py                main() and modules_dict                         *)
(*   covid_cases.py         Cases.prepare_cases_data,                       *)
(*                          Cases.prepare_regional_cases_data,              *)
(*                          Cases.prepare_council_cases_data,               *)
(*                          Cases.graph_daily_cases_uk,                     *)
(*                          Cases.table_cases_local_area, main()            *)
(*   covid_deaths.py        DeathsData.prepare_deaths_data,                 *)
(*                          DeathsData.prepare_regional_deaths_data,        *)
(*                          DeathsData.prepare_council_deaths_data,         *)
(*                          PlotDeaths.graph_daily_deaths_uk,               *)
(*                          PlotDeaths.table_deaths_local_area, main()      *)
(*   covid_vaccinations.py  VaccinationsData.prepare_vaccination_data,      *)
(*                          VaccinationsData.prepare_age_group_vaccine_data,*)
(*                          main()                                          *)
(*   covid_hospitalisations.py  main()                                      *)
(*                                                                          *)
(* A DataFrame is a sequence of rows; a row is a record of its columns plus *)
(* the field "index", the row's index label.  Calendar dates are day        *)
(* numbers.  Sums and means are exact rationals <<n, d>> in lowest terms    *)
(* (pandas holds their float64 rounding); <<0, 0>> is NaN.  The two float64 *)
(* operations of a per-100,000 rate are modelled bit for bit: a float64 is  *)
(* [m, e] with m a 53-bit mantissa in six base-1024 limbs, value m * 2^e.   *)
(***************************************************************************)
EXTENDS Integers, Sequences, FiniteSets, TLC

VARIABLES
    pc,            \* the statement the running method is at
    module,        \* "cases" | "deaths": the module whose main() runs
    api,           \* what the coronavirus API serves (the CSV contents)
    population,    \* the melted population table handed to the constructor
    cases,         \* prepare_cases_data: the nationwide table
    regional,      \* prepare_regional_*_data: the regional table
    regional_pop,  \* self.regional_pop: the population index
    council,       \* prepare_council_*_data: the council table
    council_week,  \* the weekly totals, one row per council
    df_cases,      \* table_*_local_area: the councils by rate (df_deaths)
    df_alpha,      \* table_*_local_area: the councils by name
    err,           \* the exception that ended the run, "" if none
    typed,         \* main.py: what the user typed at the prompt
    loop,          \* main.py: the names the for loop has still to visit
    step,          \* the statement of the module's main() to run next
    env,           \* the names bound in main() and the attributes of self
    called,        \* the calls made so far, in order
    vaccine,       \* prepare_vaccination_data: the table of cumulative doses
    today,         \* date.today(), as a proleptic Gregorian ordinal
    recent_thursday,  \* self.recent_thursday
    age_group_pop, \* the populations of the 12 age groups
    vaccine_age,   \* prepare_age_group_vaccine_data: the table by age and dose
    fig            \* the traces of the figure a graph method has drawn

vars == <<pc, module, api, population, cases, regional, regional_pop,
          council, council_week, df_cases, df_alpha, err,
         typed, loop, step, env, called,
         vaccine, today, recent_thursday, age_group_pop, vaccine_age, fig>>

\* the variables of main.py's loop over the modules
driver == <<typed, loop, step, env, called>>

\* the tables of the cases and deaths modules
tables == <<cases, regional, regional_pop, council, council_week, df_cases, df_alpha>>

\* the variables of covid_vaccinations.py
doses == <<vaccine, today, recent_thursday, age_group_pop, vaccine_age>>

NoDoses ==
    /\ vaccine = <<>>
    /\ today = 0
    /\ recent_thursday = <<>>
    /\ age_group_pop = <<>>
    /\ vaccine_age = <<>>

\* a run of one module's methods on its own: main.py's loop plays no part
NotDriven ==
    /\ NoDoses
    /\ fig = <<>>
    /\ typed = <<>>
    /\ loop = <<>>
    /\ step = 0
    /\ env = <<>>
    /\ called = <<>>

---------------------------------------------------------------------------
(* Bounds of the model                                                     *)

\* the calendar of the regional and council CSVs is the days 1..MaxDate
MaxDate == 8
\* the calendar of the nationwide CSV is the days 1..MaxNatDate
MaxNatDate == 9

---------------------------------------------------------------------------
(* Program constants                                                       *)

\* '2020-07-01' as a day number of the model's calendar
JULY_1 == 4
\* '2020-01-28', the first date kept by prepare_cases_data
CASES_FROM == 3
DEATHS_FROM == 4
\* rolling(window=7)
Window == 7
\* the 3 days either side of 1st July
Span == 3
\* x.iloc[-7:]
Week == 7
\* ... / population * 100000
Per == 100000
\* the 5 most recent days are grey
Grey == 5

---------------------------------------------------------------------------
(* Rationals                                                               *)

NaN == <<0, 0>>
IsNaN(x) == x[2] = 0
Rat(n) == <<n, 1>>

RECURSIVE GCD(_, _)
GCD(a, b) == IF b = 0 THEN a ELSE GCD(b, a % b)

Norm(n, d) ==
    LET g == GCD(IF n < 0 THEN -n ELSE n, d)
    IN  IF n = 0 THEN <<0, 1>> ELSE <<n \div g, d \div g>>

RatAdd(x, y) == Norm(x[1] * y[2] + y[1] * x[2], x[2] * y[2])
RatDivInt(x, k) == Norm(x[1], x[2] * k)

RECURSIVE RatSum(_, _)
RatSum(s, i) == IF i = 0 THEN Rat(0) ELSE RatAdd(RatSum(s, i - 1), s[i])

\* Series.mean() with skipna: the mean of the values that are not NaN
Mean(s) ==
    LET v == SelectSeq(s, LAMBDA x : ~IsNaN(x))
    IN  IF v = <<>> THEN NaN ELSE RatDivInt(RatSum(v, Len(v)), Len(v))

\* Series.sum() with skipna
Sum(s) ==
    LET v == SelectSeq(s, LAMBDA x : ~IsNaN(x))
    IN  RatSum(v, Len(v))

---------------------------------------------------------------------------
(* the strings shown in the graphs                                         *)

\* "{:,}".format(n) of a whole number: its digits in groups of a thousand
RECURSIVE Comma(_)
Comma(n) == IF n < 1000 THEN <<n>> ELSE Comma(n \div 1000) \o <<n % 1000>>

\* round(x, 2), in hundredths: the nearest, the even one of two as near
Round2(x) ==
    LET q == (100 * x[1]) \div x[2]
        r == (100 * x[1]) % x[2]
    IN  IF 2 * r > x[2] \/ (2 * r = x[2] /\ q % 2 = 1) THEN q + 1 ELSE q

\* the string of NaN
NanStr == [text |-> "nan"]

\* "{:,}".format(x) of a float, "nan" for NaN
FloatStr(x) ==
    IF IsNaN(x) THEN NanStr
    ELSE LET h == Round2(x)
             a == IF h < 0 THEN -h ELSE h
         IN  [minus |-> h < 0, whole |-> Comma(a \div 100), hundredths |-> a % 100]

\* "{:,}".format(x).replace(".0", "") of a float that holds a whole number
WholeStr(x) ==
    IF IsNaN(x) THEN NanStr
    ELSE [minus |-> x[1] < 0, whole |-> Comma(IF x[1] < 0 THEN -x[1] ELSE x[1])]

\* str.replace(".0", "") of such a string: the point and the 0 after it go,
\* be the 0 the only decimal (7.0 gives 7) or the first of two (7.05 gives 75)
CutPointZero(str) ==
    IF str = NanStr \/ str.hundredths >= 10 THEN str
    ELSE [minus |-> str.minus, whole |-> str.whole,
          glued |-> IF str.hundredths = 0 THEN <<>> ELSE <<str.hundredths>>]

\* s[:-k] of a list: all but its last k, nothing when it has no more than k
ButLast(s, k) == IF Len(s) > k THEN SubSeq(s, 1, Len(s) - k) ELSE <<>>

---------------------------------------------------------------------------
(* float64: round to nearest, ties to even                                 *)

Base == 2 ^ 10

F64Zero == [m |-> <<>>, e |-> 0]
F64NaN == [m |-> <<>>, e |-> 1]

RECURSIVE Limbs(_)
Limbs(n) == IF n = 0 THEN <<>> ELSE Append(Limbs(n \div Base), n % Base)

RECURSIVE BitLen(_)
BitLen(n) == IF n = 0 THEN 0 ELSE 1 + BitLen(n \div 2)

Strip(N) == IF N # <<>> /\ N[1] = 0 THEN Tail(N) ELSE N

\* the limbs N followed by zero limbs up to length len, divided by D:
\* <<quotient, remainder>>
RECURSIVE DivSmall(_, _, _, _, _, _)
DivSmall(N, len, D, i, r, acc) ==
    IF i > len THEN <<acc, r>>
    ELSE LET t == r * Base + (IF i <= Len(N) THEN N[i] ELSE 0)
             q == t \div D
         IN  DivSmall(N, len, D, i + 1, t % D,
                      IF acc = <<>> /\ q = 0 THEN acc ELSE Append(acc, q))

\* the limbs N times c (carry and acc are never negative: the two tests make
\* TLC evaluate them at every step instead of building a chain of thunks)
RECURSIVE MulSmall(_, _, _, _, _)
MulSmall(N, c, i, carry, acc) ==
    IF i = 0 \/ carry < 0 \/ Len(acc) < 0 THEN Limbs(carry) \o acc
    ELSE LET t == N[i] * c + carry
         IN  MulSmall(N, c, i - 1, t \div Base, <<t % Base>> \o acc)

RECURSIVE Incr(_, _)
Incr(M, i) ==
    IF i = 0 THEN <<1>> \o M
    ELSE IF M[i] < Base - 1 THEN [M EXCEPT ![i] = M[i] + 1]
    ELSE Incr([M EXCEPT ![i] = 0], i - 1)

\* the float64 nearest to X * 2^e (plus a fraction below one unit of X when
\* inexact): X is shifted until its first limb holds 3 bits, so that six
\* limbs hold 53 bits, and the seventh limb decides the rounding
Round(X, inexact, e) ==
    IF X = <<>> THEN F64Zero
    ELSE LET k == (13 - BitLen(X[1])) % 10
             Y == Strip(MulSmall(X, 2 ^ k, Len(X), 0, <<>>))
             n == Len(Y)
             M == [i \in 1..6 |-> IF i <= n THEN Y[i] ELSE 0]
             guard == n >= 7 /\ Y[7] >= Base \div 2
             sticky == \/ inexact
                       \/ n >= 7 /\ Y[7] % (Base \div 2) # 0
                       \/ \E i \in 8..n : Y[i] # 0
             up == guard /\ (sticky \/ M[6] % 2 = 1)
             M2 == IF up THEN Incr(M, 6) ELSE M
             ovf == M2[1] = 8
         IN  [m |-> IF ovf THEN <<4, 0, 0, 0, 0, 0>> ELSE M2,
              e |-> e - k + 10 * (n - 6) + (IF ovf THEN 1 ELSE 0)]

\* the float64 that holds the rational x (a column of means or sums)
F64(x) ==
    IF IsNaN(x) THEN F64NaN
    ELSE LET p == Limbs(x[1])
             qr == DivSmall(p, Len(p) + 8, x[2], 1, 0, <<>>)
         IN  Round(qr[1], qr[2] # 0, -80)

\* x / c for a float64 x and a positive integer c
F64Div(x, c) ==
    IF x.m = <<>> THEN x
    ELSE LET qr == DivSmall(x.m, 9, c, 1, 0, <<>>)
         IN  Round(qr[1], qr[2] # 0, x.e - 30)

\* x * c for a float64 x and a positive integer c
F64Mul(x, c) ==
    IF x.m = <<>> THEN x
    ELSE Round(MulSmall(x.m, c, 6, 0, <<>>), FALSE, x.e)

\* the float64 of the integer n
F64Int(n) == F64(Rat(n))

\* the whole number the limbs L hold
RECURSIVE LimbsInt(_)
LimbsInt(L) ==
    IF L = <<>> THEN 0 ELSE LimbsInt(SubSeq(L, 1, Len(L) - 1)) * Base + L[Len(L)]

\* the whole number nearest to X * 2^e, the even one of two as near: X is
\* shifted until the point falls between two limbs, d limbs from the end
Rint(X, e) ==
    IF X = <<>> THEN 0
    ELSE IF e >= 0 THEN LimbsInt(X) * 2 ^ e
    ELSE LET d == (9 - e) \div 10
             Y == MulSmall(X, 2 ^ (10 * d + e), Len(X), 0, <<>>)
             P == [i \in 1..(IF d > Len(Y) THEN d - Len(Y) ELSE 0) |-> 0] \o Y
             n == Len(P)
             whole == LimbsInt(SubSeq(P, 1, n - d))
             F == SubSeq(P, n - d + 1, n)
             more == \E i \in 2..d : F[i] # 0
             up == \/ F[1] > Base \div 2
                   \/ F[1] = Base \div 2 /\ (more \/ whole % 2 = 1)
         IN  whole + (IF up THEN 1 ELSE 0)

\* round(x, 2) of a float64 that is not NaN, in hundredths: Python rounds
\* the exact value the float holds
Hundredths(x) == Rint(MulSmall(x.m, 100, Len(x.m), 0, <<>>), x.e)

\* "{:,}".format(round(x, 2)) of a float64
F64Str(x) ==
    IF x = F64NaN THEN NanStr
    ELSE LET h == Hundredths(x)
         IN  [minus |-> FALSE, whole |-> Comma(h \div 100), hundredths |-> h % 100]

\* Series.round(2) on one value: numpy's rint(x * 100) / 100
around(x) ==
    IF x.m = <<>> THEN x
    ELSE LET y == F64Mul(x, 100)
         IN  F64Div(F64Int(Rint(y.m, y.e)), 100)

---------------------------------------------------------------------------
(* Strings in Python's order (groupby sorts its keys)                      *)

StrOrder ==
    <<"Darlington", "E06000001", "E06000002", "E06000005", "E12000001",
      "E12000004", "E12000010", "East Midlands", "Hartlepool", "Middlesbrough",
      "North East">>

StrRank(s) == CHOOSE i \in 1..Len(StrOrder) : StrOrder[i] = s

\* lexicographic order of tuples of strings of the same length
RECURSIVE KeyLess(_, _)
KeyLess(a, b) ==
    IF a = <<>> THEN FALSE
    ELSE IF a[1] # b[1] THEN StrRank(a[1]) < StrRank(b[1])
    ELSE KeyLess(Tail(a), Tail(b))

RECURSIVE SortKeys(_)
SortKeys(S) ==
    IF S = {} THEN <<>>
    ELSE LET k == CHOOSE x \in S : \A y \in S : ~KeyLess(y, x)
         IN  <<k>> \o SortKeys(S \ {k})

---------------------------------------------------------------------------
(* What the API and the population workbook hold                           *)

RegionCodes == <<"E12000001", "E12000004">>
CouncilCodes == <<"E06000001", "E06000002">>

AreaName(code) ==
    CASE code = "E12000001" -> "North East"
      [] code = "E12000004" -> "East Midlands"
      [] code = "E06000001" -> "Hartlepool"
      [] code = "E06000002" -> "Middlesbrough"
      [] code = "E06000005" -> "Darlington"
      \* a second code served under the name of another
      [] code = "E12000010" -> "East Midlands"

\* the daily counts of an area follow one of a few shapes
ShapeValue(shape, d) ==
    CASE shape = "flat0" -> 0
      [] shape = "flat5" -> 5
      [] shape = "flat7" -> 7
      [] shape = "flat10" -> 10
      [] shape = "spike" -> IF d = JULY_1 THEN 100 ELSE 10
      [] shape = "square" -> d * d

\* cases by specimen date: another series than the one by publish date
SpecimenValue(code, d) == 3 * d + StrRank(code)

\* an area reports the days lo..hi except the day skip
Series(lo, hi, skip, shape) == [lo |-> lo, hi |-> hi, skip |-> skip, shape |-> shape]
Absent == Series(1, 0, 0, "flat0")
Days(a) == {d \in a.lo..a.hi : d # a.skip}

\* the rows the API serves for the areas `codes`: newest date first
RECURSIVE ApiRows(_, _, _, _, _, _)
ApiRows(areas, codes, kind, mod, d, c) ==
    IF d = 0 THEN <<>>
    ELSE IF c > Len(codes) THEN ApiRows(areas, codes, kind, mod, d - 1, 1)
    ELSE LET code == codes[c]
             rest == ApiRows(areas, codes, kind, mod, d, c + 1)
             base == [area_code |-> code, area_name |-> AreaName(code),
                      area_type |-> kind, date |-> d]
             v == Rat(ShapeValue(areas[code].shape, d))
             row == CASE mod = "deaths" -> base @@ [deaths |-> v]
                      [] kind = "ltla" -> base @@ [publish |-> v]
                      [] OTHER -> base @@ [specimen |-> Rat(SpecimenValue(code, d)),
                                           publish |-> v]
         IN  IF d \in Days(areas[code]) THEN <<row>> \o rest ELSE rest

\* pd.read_csv: the rows with a RangeIndex
read_csv(rows) == [i \in 1..Len(rows) |-> rows[i] @@ [index |-> i - 1]]

Ages == <<"0", "1", "90+">>

AgePopulation(code) ==
    CASE code = "E12000001" -> <<100000, 100000, 50000>>
      [] code = "E12000004" -> <<400000, 350000, 250000>>
      [] code = "E06000001" -> <<500000, 300000, 200000>>
      [] code = "E06000002" -> <<20000, 20000, 10000>>
      [] code = "E06000005" -> <<20000, 20000, 10000>>

\* population.melt(id_vars=['Name', 'Code'], ...): one row per age and area,
\* age by age
RECURSIVE melt(_, _, _)
melt(codes, a, c) ==
    IF a > Len(Ages) THEN <<>>
    ELSE IF c > Len(codes) THEN melt(codes, a + 1, 1)
    ELSE <<[Name |-> AreaName(codes[c]), Code |-> codes[c], age |-> Ages[a],
            population |-> AgePopulation(codes[c])[a]]>>
         \o melt(codes, a, c + 1)

\* the workbook lists every area, or misses a region and two councils
PopTables ==
    { melt(<<"E06000001", "E06000002", "E06000005", "E12000001", "E12000004">>, 1, 1),
      melt(<<"E06000001", "E12000004">>, 1, 1) }

---------------------------------------------------------------------------
(* DataFrame operations                                                    *)

\* the rows of a table
Range(f) == {f[i] : i \in DOMAIN f}

Column(df, col) == [i \in 1..Len(df) |-> df[i][col]]

\* df[df[col] == v] and its complement
Where(df, col, v) == SelectSeq(df, LAMBDA r : r[col] = v)

RECURSIVE Concat(_)
Concat(dfs) == IF dfs = <<>> THEN <<>> ELSE dfs[1] \o Concat(Tail(dfs))

\* every order of the rows of the set S
RECURSIVE Orders(_)
Orders(S) ==
    IF S = {} THEN {<<>>}
    ELSE UNION {{<<r>> \o o : o \in Orders(S \ {r})} : r \in S}

\* the table left in the order it was read
sort_values_skipped(df, d) == {df}

\* df.sort_values('date'): the rows in ascending date order.  The default
\* kind is quicksort, which is not stable: rows of equal date come out in
\* any order.
RECURSIVE sort_values(_, _)
sort_values(df, d) ==
    IF d = 0 THEN {<<>>}
    ELSE LET same == {df[i] : i \in {j \in 1..Len(df) : df[j].date = d}}
         IN  {a \o b : a \in sort_values(df, d - 1), b \in Orders(same)}

\* the group keys of df.groupby(by), sorted
GroupKeys(df, by) ==
    SortKeys({[k \in 1..Len(by) |-> df[i][by[k]]] : i \in 1..Len(df)})

\* the rows of one group, in the order of df
Group(df, by, key) ==
    SelectSeq(df, LAMBDA r : \A k \in 1..Len(by) : r[by[k]] = key[k])

\* df.reset_index(drop=True)
reset_index_drop(df) == [i \in 1..Len(df) |-> [df[i] EXCEPT !.index = i - 1]]

\* df.reset_index(): the old labels become the column 'index' (here level_0)
reset_index(df) ==
    [i \in 1..Len(df) |->
        [c \in (DOMAIN df[i]) \cup {"level_0"} |->
            CASE c = "index" -> i - 1
              [] c = "level_0" -> df[i].index
              [] OTHER -> df[i][c]]]

\* the rolling mean that asks for a full window whatever min_periods says
rolling_mean_full(s, m) ==
    [k \in 1..Len(s) |->
        IF k >= Window THEN Mean(SubSeq(s, k - Window + 1, k)) ELSE NaN]

\* the rolling mean that takes any window of one value or more
rolling_mean_any(s, m) ==
    [k \in 1..Len(s) |-> Mean(SubSeq(s, IF k > Window THEN k - Window + 1 ELSE 1, k))]

\* Series.rolling(window=7, min_periods=m).mean(): position k holds the mean
\* of the positions k-6..k that exist, NaN when fewer than m of them hold a
\* value
rolling_mean(s, m) ==
    [k \in 1..Len(s) |->
        LET w == SubSeq(s, IF k > Window THEN k - Window + 1 ELSE 1, k)
        IN  IF Len(SelectSeq(w, LAMBDA x : ~IsNaN(x))) >= m THEN Mean(w) ELSE NaN]

\* the same rolling mean taken down the whole table, the groups ignored
GroupRollingWhole(df, by, cols, m) ==
    [k \in 1..Len(df) |->
        [c \in {cols[j] : j \in 1..Len(cols)} \cup {"index"} |->
            IF c = "index" THEN df[k].index
            ELSE rolling_mean(Column(df, c), m)[k]]]

\* df.groupby(by)[cols].apply(lambda x: x.rolling(7, min_periods=m).mean()):
\* group after group in key order, every row under its own index label
GroupRolling(df, by, cols, m) ==
    LET keys == GroupKeys(df, by)
        one(key) ==
            LET x == Group(df, by, key)
                avg == [c \in 1..Len(cols) |-> rolling_mean(Column(x, cols[c]), m)]
            IN  [k \in 1..Len(x) |->
                    [c \in {cols[j] : j \in 1..Len(cols)} \cup {"index"} |->
                        IF c = "index" THEN x[k].index
                        ELSE avg[CHOOSE j \in 1..Len(cols) : cols[j] = c][k]]]
    IN  Concat([g \in 1..Len(keys) |-> one(keys[g])])

\* df[new] = frame: column by column in position, each value put on the row
\* that carries its index label, NaN on a row whose label the frame lacks
SetColumns(df, new, frame, cols) ==
    [i \in 1..Len(df) |->
        [c \in (DOMAIN df[i]) \cup {new[j] : j \in 1..Len(new)} |->
            IF \E j \in 1..Len(new) : new[j] = c
            THEN LET j == CHOOSE j \in 1..Len(new) : new[j] = c
                     hit == Where(frame, "index", df[i].index)
                 IN  IF hit = <<>> THEN NaN ELSE hit[1][cols[j]]
            ELSE df[i][c]]]

\* the index that keeps the first row of each code
GroupFirst(df) ==
    LET keys == GroupKeys(df, <<"Code">>)
    IN  [g \in 1..Len(keys) |->
            [index |-> g - 1, Code |-> keys[g][1],
             population |-> Group(df, <<"Code">>, keys[g])[1].population]]

\* population.groupby('Code', as_index=False)['population'].sum()
GroupSum(df) ==
    LET keys == GroupKeys(df, <<"Code">>)
    IN  [g \in 1..Len(keys) |->
            [index |-> g - 1, Code |-> keys[g][1],
             population |-> Sum([i \in 1..Len(Group(df, <<"Code">>, keys[g])) |->
                                    Rat(Group(df, <<"Code">>, keys[g])[i].population)])[1]]]

\* the merge that keeps only the rows with a match (how='inner')
merge_inner(left, right) ==
    LET one(r) ==
            LET hit == Where(right, "Code", r.area_code)
            IN  [h \in 1..Len(hit) |->
                    r @@ [Code |-> hit[h].Code,
                          population |-> Rat(hit[h].population)]]
    IN  reset_index_drop(Concat([i \in 1..Len(left) |-> one(left[i])]))

\* left.merge(right, left_on='area_code', right_on='Code', how='left'): the
\* left rows in their order, each once per right row of its code, and once
\* with NaN when there is none
merge(left, right) ==
    LET one(r) ==
            LET hit == Where(right, "Code", r.area_code)
            IN  IF hit = <<>> THEN <<r @@ [Code |-> "NaN", population |-> NaN]>>
                ELSE [h \in 1..Len(hit) |->
                        r @@ [Code |-> hit[h].Code,
                              population |-> Rat(hit[h].population)]]
    IN  reset_index_drop(Concat([i \in 1..Len(left) |-> one(left[i])]))

\* the rate that is zero where the population is missing
RateOrZero(value, pop) ==
    IF IsNaN(value) THEN F64NaN
    ELSE IF IsNaN(pop) THEN F64Zero
    ELSE F64Mul(F64Div(F64(value), pop[1]), Per)

\* value * 100000 / population: the scaling before the division
RateScaledFirst(value, pop) ==
    IF IsNaN(value) \/ IsNaN(pop) THEN F64NaN
    ELSE F64Div(F64Mul(F64(value), Per), pop[1])

\* the rate rounded to 2 decimals before it is stored
RateRounded(value, pop) ==
    IF IsNaN(value) \/ IsNaN(pop) THEN F64NaN
    ELSE around(F64Mul(F64Div(F64(value), pop[1]), Per))

\* value / population * 100000 in float64
Rate(value, pop) ==
    IF IsNaN(value) \/ IsNaN(pop) THEN F64NaN
    ELSE F64Mul(F64Div(F64(value), pop[1]), Per)

\* df[new] = df[col] / df['population'] * 100000
AddRate(df, new, col) ==
    [i \in 1..Len(df) |-> df[i] @@ [x \in {new} |-> Rate(df[i][col], df[i].population)]]

\* for c in [...]: df[c + '_str'] = ["{:,}".format(round(x, 2)) for x in df[c]]
\* for the columns of means and the columns of rates
AddStr(df, means, rates) ==
    [i \in 1..Len(df) |->
        df[i] @@ [c \in {m \o "_str" : m \in means} |->
                     FloatStr(df[i][CHOOSE m \in means : m \o "_str" = c])]
              @@ [c \in {r \o "_str" : r \in rates} |->
                     F64Str(df[i][CHOOSE r \in rates : r \o "_str" = c])]]

\* the exception a function call ended with, or its value
Raise(e) == [err |-> e, df |-> <<>>]
Return(df) == [err |-> "", df |-> df]

\* july_1 with the mean written to the whole publish column
july_1_unmasked(df0) ==
    LET df == reset_index(df0)
        n == Len(df)
        hits == {i \in 1..n : df[i].date = JULY_1}
        row_july_1 == (CHOOSE i \in hits : \A j \in hits : i <= j) - 1
        rows == [k \in 1..2 * Span |->
                    IF k <= Span THEN row_july_1 - Span + k - 1
                    ELSE row_july_1 + k - Span]
        at(p) == IF p < 0 THEN df[p + n + 1] ELSE df[p + 1]
        mean == Mean([k \in 1..2 * Span |-> at(rows[k]).publish])
    IN  IF hits = {} THEN Raise("IndexError")
        ELSE IF \E k \in 1..2 * Span : rows[k] >= n \/ rows[k] < -n
        THEN Raise("IndexError")
        ELSE Return([i \in 1..n |-> [df[i] EXCEPT !.publish = mean]])

\* july_1 with the row of 1st July itself among the rows of the mean
july_1_inclusive(df0) ==
    LET df == reset_index(df0)
        n == Len(df)
        hits == {i \in 1..n : df[i].date = JULY_1}
        row_july_1 == (CHOOSE i \in hits : \A j \in hits : i <= j) - 1
        rows == [k \in 1..2 * Span + 1 |-> row_july_1 - Span + k - 1]
        at(p) == IF p < 0 THEN df[p + n + 1] ELSE df[p + 1]
        mean == Mean([k \in 1..2 * Span + 1 |-> at(rows[k]).publish])
    IN  IF hits = {} THEN Raise("IndexError")
        ELSE IF \E k \in 1..2 * Span + 1 : rows[k] >= n \/ rows[k] < -n
        THEN Raise("IndexError")
        ELSE Return([i \in 1..n |->
                        IF df[i].date = JULY_1
                        THEN [df[i] EXCEPT !.publish = mean] ELSE df[i]])

\* july_1(df) of prepare_regional_cases_data
july_1(df0) ==
    LET df == reset_index(df0)
        n == Len(df)
        hits == {i \in 1..n : df[i].date = JULY_1}
        \* .index[0]: the first label, 0-based
        row_july_1 == (CHOOSE i \in hits : \A j \in hits : i <= j) - 1
        rows == [k \in 1..2 * Span |->
                    IF k <= Span THEN row_july_1 - Span + k - 1
                    ELSE row_july_1 + k - Span]
        \* iloc takes a negative position from the end
        at(p) == IF p < 0 THEN df[p + n + 1] ELSE df[p + 1]
        mean == Mean([k \in 1..2 * Span |-> at(rows[k]).publish])
    IN  IF hits = {} THEN Raise("IndexError")
        ELSE IF \E k \in 1..2 * Span : rows[k] >= n \/ rows[k] < -n
        THEN Raise("IndexError")
        ELSE Return([i \in 1..n |->
                        IF df[i].date = JULY_1
                        THEN [df[i] EXCEPT !.publish = mean] ELSE df[i]])

\* df.groupby('area_name', as_index=False).apply(july_1): the groups in key
\* order one after the other, or the exception of the first group that raises
GroupApply(df) ==
    LET keys == GroupKeys(df, <<"area_name">>)
        res == [g \in 1..Len(keys) |-> july_1(Group(df, <<"area_name">>, keys[g]))]
    IN  IF \E g \in 1..Len(keys) : res[g].err # ""
        THEN Raise(res[CHOOSE g \in 1..Len(keys) :
                          res[g].err # "" /\ \A h \in 1..g - 1 : res[h].err = ""].err)
        ELSE Return(Concat([g \in 1..Len(keys) |-> res[g].df]))

\* the total that runs on from one group to the next
WeeklyTotalRunning(df, col) ==
    LET by == <<"area_code", "area_name">>
        keys == GroupKeys(df, by)
        total(key) ==
            LET x == Column(Group(df, by, key), col)
            IN  Sum(SubSeq(x, IF Len(x) > Week THEN Len(x) - Week + 1 ELSE 1, Len(x)))
    IN  [g \in 1..Len(keys) |->
            [c \in {"index", "area_code", "area_name", col} |->
                CASE c = "index" -> g - 1
                  [] c = "area_code" -> keys[g][1]
                  [] c = "area_name" -> keys[g][2]
                  [] OTHER -> Sum([h \in 1..g |-> total(keys[h])])]]

\* the total of the rows of the 7 calendar days up to the group's last day
WeeklyTotalCalendar(df, col) ==
    LET by == <<"area_code", "area_name">>
        keys == GroupKeys(df, by)
        total(key) ==
            LET x == Group(df, by, key)
                recent == SelectSeq(x, LAMBDA r : r.date > x[Len(x)].date - Week)
            IN  Sum(Column(recent, col))
    IN  [g \in 1..Len(keys) |->
            [c \in {"index", "area_code", "area_name", col} |->
                CASE c = "index" -> g - 1
                  [] c = "area_code" -> keys[g][1]
                  [] c = "area_name" -> keys[g][2]
                  [] OTHER -> total(keys[g])]]

\* grouped['publish'].apply(lambda x: x.iloc[-7:].sum()) with as_index=False:
\* one row per group in key order
WeeklyTotal(df, col) ==
    LET by == <<"area_code", "area_name">>
        keys == GroupKeys(df, by)
        total(key) ==
            LET x == Column(Group(df, by, key), col)
            IN  Sum(SubSeq(x, IF Len(x) > Week THEN Len(x) - Week + 1 ELSE 1, Len(x)))
    IN  [g \in 1..Len(keys) |->
            [c \in {"index", "area_code", "area_name", col} |->
                CASE c = "index" -> g - 1
                  [] c = "area_code" -> keys[g][1]
                  [] c = "area_name" -> keys[g][2]
                  [] OTHER -> total(keys[g])]]

---------------------------------------------------------------------------
(* The data the runs are checked on                                        *)

\* the days a council may fail to report
SkipDays == {0, MaxDate - 2}

Ranges == {<<lo, hi>> : lo \in 1..MaxDate, hi \in 1..MaxDate}

RegionShapes(mod) ==
    IF mod = "cases" THEN {"spike", "square"} ELSE {"flat7", "square"}

Areas(c1, a1, c2, a2) == (c1 :> a1) @@ (c2 :> a2)

DefaultRegions(mod) ==
    Areas("E12000004", Series(1, Window, 0, IF mod = "cases" THEN "spike" ELSE "flat7"),
          "E12000001", Absent)

DefaultCouncils ==
    Areas("E06000001", Series(1, Window, 0, "flat10"), "E06000002", Absent)

\* East Midlands reports any run of days; North East nothing, a week of
\* zeros, or (cases) the days after 1st July only
RegionData(mod) ==
    {Areas("E12000004", Series(r[1], r[2], 0, sh), "E12000001", b) :
        r \in {x \in Ranges : x[1] <= x[2]}, sh \in RegionShapes(mod),
        b \in {Absent, Series(1, Window, 0, "flat0")}
               \cup (IF mod = "cases"
                     THEN {Series(JULY_1 + 1, MaxDate, 0, "flat0")} ELSE {})}

\* Hartlepool reports any run of days, less at most one; Middlesbrough
\* nothing or three days of 5
CouncilData ==
    {Areas("E06000001", Series(r[1], r[2], sk, sh), "E06000002", y) :
        r \in {x \in Ranges : x[1] <= x[2]}, sk \in SkipDays,
        sh \in {"flat5", "flat10", "square"},
        y \in {Absent, Series(1, Span, 0, "flat5")}}

\* the nation reports any run of days, less at most one
NationData ==
    {Series(r[1], r[2], sk, sh) :
        r \in {x \in (1..MaxNatDate) \X (1..MaxNatDate) : x[1] <= x[2]},
        sk \in {0, MaxNatDate - 2}, sh \in {"flat7", "square"}}

Scenarios(mod) ==
    {[nation |-> Absent, region |-> rd, council |-> DefaultCouncils] :
        rd \in RegionData(mod)}
    \cup {[nation |-> Absent, region |-> DefaultRegions(mod), council |-> cd] :
            cd \in CouncilData}

---------------------------------------------------------------------------
(* Cases(template, plot_config, population), DeathsData(population) and    *)
(* the run of their prepare_regional_* and prepare_council_* methods       *)

Init ==
    /\ module \in {"cases", "deaths"}
    /\ population \in PopTables
    /\ api \in Scenarios(module)
    /\ pc = "regional_read"
    /\ cases = <<>>
    /\ regional = <<>>
    /\ regional_pop = <<>>
    /\ council = <<>>
    /\ council_week = <<>>
    /\ df_cases = <<>>
    /\ df_alpha = <<>>
    /\ err = ""
    /\ NotDriven

\* the codes of the areas served, sorted
CodesOf(areas) ==
    LET keys == SortKeys({<<c>> : c \in DOMAIN areas})
    IN  [i \in 1..Len(keys) |-> keys[i][1]]

RegionalCsv == ApiRows(api.region, CodesOf(api.region), "region", module, MaxDate, 1)
CouncilCsv == ApiRows(api.council, CodesOf(api.council), "ltla", module, MaxDate, 1)

\* ---- Cases.prepare_regional_cases_data

ReadRegional ==
    /\ pc = "regional_read" /\ module = "cases"
    /\ regional' = read_csv(RegionalCsv)
    /\ pc' = "regional_sort"
    /\ UNCHANGED <<driver, doses, fig, df_cases, df_alpha, module, api, population, cases, regional_pop, council,
                   council_week, err>>

SortRegional ==
    /\ pc = "regional_sort" /\ module = "cases"
    /\ regional' \in sort_values(regional, MaxDate)
    /\ pc' = "regional_july_1"
    /\ UNCHANGED <<driver, doses, fig, df_cases, df_alpha, module, api, population, cases, regional_pop, council,
                   council_week, err>>

July1Regional ==
    /\ pc = "regional_july_1" /\ module = "cases"
    /\ LET r == GroupApply(regional)
       IN  IF r.err # ""
           THEN /\ err' = r.err
                /\ pc' = "raised"
                /\ UNCHANGED regional
           ELSE /\ regional' = reset_index_drop(r.df)
                /\ pc' = "regional_rolling"
                /\ UNCHANGED err
    /\ UNCHANGED <<driver, doses, fig, df_cases, df_alpha, module, api, population, cases, regional_pop, council,
                   council_week>>

\* the rolling means taken of the publish values as served
RollingRegionalOfServed ==
    /\ pc = "regional_rolling" /\ module = "cases"
    /\ LET served == [i \in 1..Len(regional) |->
                        [regional[i] EXCEPT !.publish =
                            (CHOOSE x \in Range(RegionalCsv) :
                                /\ x.area_code = regional[i].area_code
                                /\ x.date = regional[i].date).publish]]
       IN  regional' = SetColumns(regional, <<"specimen_7_day", "publish_7_day">>,
                                  GroupRolling(served, <<"area_name", "area_code">>,
                                               <<"specimen", "publish">>, 1),
                                  <<"specimen", "publish">>)
    /\ pc' = "regional_pop"
    /\ UNCHANGED <<driver, doses, fig, df_cases, df_alpha, module, api, population, cases, regional_pop, council,
                   council_week, err>>

RollingRegional ==
    /\ pc = "regional_rolling" /\ module = "cases"
    /\ regional' = SetColumns(regional, <<"specimen_7_day", "publish_7_day">>,
                              GroupRolling(regional, <<"area_name", "area_code">>,
                                           <<"specimen", "publish">>, 1),
                              <<"specimen", "publish">>)
    /\ pc' = "regional_pop"
    /\ UNCHANGED <<driver, doses, fig, df_cases, df_alpha, module, api, population, cases, regional_pop, council,
                   council_week, err>>

PopRegional ==
    /\ pc = "regional_pop" /\ module = "cases"
    /\ regional_pop' = GroupSum(population)
    /\ pc' = "regional_merge"
    /\ UNCHANGED <<driver, doses, fig, df_cases, df_alpha, module, api, population, cases, regional, council,
                   council_week, err>>

MergeRegional ==
    /\ pc = "regional_merge" /\ module = "cases"
    /\ regional' = merge(regional, regional_pop)
    /\ pc' = "regional_rate"
    /\ UNCHANGED <<driver, doses, fig, df_cases, df_alpha, module, api, population, cases, regional_pop, council,
                   council_week, err>>

RateRegional ==
    /\ pc = "regional_rate" /\ module = "cases"
    /\ regional' = AddStr(AddRate(AddRate(regional, "specimen_per_100k", "specimen_7_day"),
                                  "publish_per_100k", "publish_7_day"),
                          {"specimen_7_day", "publish_7_day"},
                          {"specimen_per_100k", "publish_per_100k"})
    /\ pc' = "council_read"
    /\ UNCHANGED <<driver, doses, fig, df_cases, df_alpha, module, api, population, cases, regional_pop, council,
                   council_week, err>>

\* ---- Cases.prepare_council_cases_data

ReadCouncil ==
    /\ pc = "council_read" /\ module = "cases"
    /\ council' = read_csv(CouncilCsv)
    /\ pc' = "council_sort"
    /\ UNCHANGED <<driver, doses, fig, df_cases, df_alpha, module, api, population, cases, regional, regional_pop,
                   council_week, err>>

SortCouncil ==
    /\ pc = "council_sort" /\ module = "cases"
    /\ council' \in sort_values(council, MaxDate)
    /\ pc' = "council_week"
    /\ UNCHANGED <<driver, doses, fig, df_cases, df_alpha, module, api, population, cases, regional, regional_pop,
                   council_week, err>>

WeekCouncil ==
    /\ pc = "council_week" /\ module = "cases"
    /\ council_week' = WeeklyTotal(council, "publish")
    /\ pc' = "council_merge"
    /\ UNCHANGED <<driver, doses, fig, df_cases, df_alpha, module, api, population, cases, regional, regional_pop,
                   council, err>>

MergeCouncil ==
    /\ pc = "council_merge" /\ module = "cases"
    /\ council_week' = merge(council_week, regional_pop)
    /\ pc' = "council_rate"
    /\ UNCHANGED <<driver, doses, fig, df_cases, df_alpha, module, api, population, cases, regional, regional_pop,
                   council, err>>

RateCouncil ==
    /\ pc = "council_rate" /\ module = "cases"
    /\ council_week' = AddRate(council_week, "cases_per_100000", "publish")
    /\ pc' = "done"
    /\ UNCHANGED <<driver, doses, fig, df_cases, df_alpha, module, api, population, cases, regional, regional_pop,
                   council, err>>

\* ---- DeathsData.prepare_regional_deaths_data

DeathsReadRegional ==
    /\ pc = "regional_read" /\ module = "deaths"
    /\ regional' = read_csv(RegionalCsv)
    /\ pc' = "regional_sort"
    /\ UNCHANGED <<driver, doses, fig, df_cases, df_alpha, module, api, population, cases, regional_pop, council,
                   council_week, err>>

DeathsSortRegional ==
    /\ pc = "regional_sort" /\ module = "deaths"
    /\ regional' \in sort_values(regional, MaxDate)
    /\ pc' = "regional_rolling"
    /\ UNCHANGED <<driver, doses, fig, df_cases, df_alpha, module, api, population, cases, regional_pop, council,
                   council_week, err>>

DeathsRollingRegional ==
    /\ pc = "regional_rolling" /\ module = "deaths"
    /\ regional' = SetColumns(regional, <<"deaths_7_day">>,
                              GroupRolling(regional, <<"area_name", "area_code">>,
                                           <<"deaths">>, 1),
                              <<"deaths">>)
    /\ pc' = "regional_pop"
    /\ UNCHANGED <<driver, doses, fig, df_cases, df_alpha, module, api, population, cases, regional_pop, council,
                   council_week, err>>

DeathsPopRegional ==
    /\ pc = "regional_pop" /\ module = "deaths"
    /\ regional_pop' = GroupSum(population)
    /\ pc' = "regional_merge"
    /\ UNCHANGED <<driver, doses, fig, df_cases, df_alpha, module, api, population, cases, regional, council,
                   council_week, err>>

DeathsMergeRegional ==
    /\ pc = "regional_merge" /\ module = "deaths"
    /\ regional' = merge(regional, regional_pop)
    /\ pc' = "regional_rate"
    /\ UNCHANGED <<driver, doses, fig, df_cases, df_alpha, module, api, population, cases, regional_pop, council,
                   council_week, err>>

DeathsRateRegional ==
    /\ pc = "regional_rate" /\ module = "deaths"
    /\ regional' = AddStr(AddRate(regional, "deaths_per_100k", "deaths_7_day"),
                          {"deaths_7_day"}, {"deaths_per_100k"})
    /\ pc' = "council_read"
    /\ UNCHANGED <<driver, doses, fig, df_cases, df_alpha, module, api, population, cases, regional_pop, council,
                   council_week, err>>

\* ---- DeathsData.prepare_council_deaths_data

DeathsReadCouncil ==
    /\ pc = "council_read" /\ module = "deaths"
    /\ council' = read_csv(CouncilCsv)
    /\ pc' = "council_sort"
    /\ UNCHANGED <<driver, doses, fig, df_cases, df_alpha, module, api, population, cases, regional, regional_pop,
                   council_week, err>>

DeathsSortCouncil ==
    /\ pc = "council_sort" /\ module = "deaths"
    /\ council' \in sort_values(council, MaxDate)
    /\ pc' = "council_week"
    /\ UNCHANGED <<driver, doses, fig, df_cases, df_alpha, module, api, population, cases, regional, regional_pop,
                   council_week, err>>

DeathsWeekCouncil ==
    /\ pc = "council_week" /\ module = "deaths"
    /\ council_week' = WeeklyTotal(council, "deaths")
    /\ pc' = "council_merge"
    /\ UNCHANGED <<driver, doses, fig, df_cases, df_alpha, module, api, population, cases, regional, regional_pop,
                   council, err>>

DeathsMergeCouncil ==
    /\ pc = "council_merge" /\ module = "deaths"
    /\ council_week' = merge(council_week, regional_pop)
    /\ pc' = "council_rate"
    /\ UNCHANGED <<driver, doses, fig, df_cases, df_alpha, module, api, population, cases, regional, regional_pop,
                   council, err>>

DeathsRateCouncil ==
    /\ pc = "council_rate" /\ module = "deaths"
    /\ council_week' = AddRate(council_week, "deaths_per_100000", "deaths")
    /\ pc' = "done"
    /\ UNCHANGED <<driver, doses, fig, df_cases, df_alpha, module, api, population, cases, regional, regional_pop,
                   council, err>>

Next ==
    \/ ReadRegional \/ SortRegional \/ July1Regional \/ RollingRegional
    \/ PopRegional \/ MergeRegional \/ RateRegional
    \/ ReadCouncil \/ SortCouncil \/ WeekCouncil \/ MergeCouncil \/ RateCouncil
    \/ DeathsReadRegional \/ DeathsSortRegional \/ DeathsRollingRegional
    \/ DeathsPopRegional \/ DeathsMergeRegional \/ DeathsRateRegional
    \/ DeathsReadCouncil \/ DeathsSortCouncil \/ DeathsWeekCouncil
    \/ DeathsMergeCouncil \/ DeathsRateCouncil

Spec == Init /\ [][Next]_vars

---------------------------------------------------------------------------
(* Cases.prepare_cases_data: the nationwide table                          *)

InitNational ==
    /\ module \in {"cases", "deaths"}
    /\ population \in PopTables
    /\ api \in {[nation |-> n, region |-> DefaultRegions(module),
                 council |-> DefaultCouncils] : n \in NationData}
    /\ pc = IF module = "cases" THEN "cases_read" ELSE "deaths_read"
    /\ cases = <<>>
    /\ regional = <<>>
    /\ regional_pop = <<>>
    /\ council = <<>>
    /\ council_week = <<>>
    /\ df_cases = <<>>
    /\ df_alpha = <<>>
    /\ err = ""
    /\ NotDriven

\* the rows the API serves for the nation: newest date first
RECURSIVE NationRows(_, _)
NationRows(a, d) ==
    IF d = 0 THEN <<>>
    ELSE IF d \in Days(a)
    THEN <<[date |-> d, specimen |-> Rat(SpecimenValue("E12000001", d)),
            publish |-> Rat(ShapeValue(a.shape, d))]>> \o NationRows(a, d - 1)
    ELSE NationRows(a, d - 1)

ReadCases ==
    /\ pc = "cases_read"
    /\ cases' = read_csv(NationRows(api.nation, MaxNatDate))
    /\ pc' = "cases_sort"
    /\ UNCHANGED <<driver, doses, fig, df_cases, df_alpha, module, api, population, regional, regional_pop, council,
                   council_week, err>>

SortCases ==
    /\ pc = "cases_sort"
    /\ cases' \in sort_values(cases, MaxNatDate)
    /\ pc' = "cases_filter"
    /\ UNCHANGED <<driver, doses, fig, df_cases, df_alpha, module, api, population, regional, regional_pop, council,
                   council_week, err>>

\* cases[cases['date'] >= '2020-01-28']
FilterCases ==
    /\ pc = "cases_filter"
    /\ cases' = SelectSeq(cases, LAMBDA r : r.date >= CASES_FROM)
    /\ pc' = "cases_rolling"
    /\ UNCHANGED <<driver, doses, fig, df_cases, df_alpha, module, api, population, regional, regional_pop, council,
                   council_week, err>>

\* cases[c + '_7_day'] = cases[c].rolling(window=7).mean()
RollingCases ==
    /\ pc = "cases_rolling"
    /\ cases' = [i \in 1..Len(cases) |->
                    cases[i] @@
                    [specimen_7_day |-> rolling_mean(Column(cases, "specimen"), Window)[i],
                     publish_7_day |-> rolling_mean(Column(cases, "publish"), Window)[i]]]
    /\ pc' = "cases_strings"
    /\ UNCHANGED <<driver, doses, fig, df_cases, df_alpha, module, api, population, regional, regional_pop, council,
                   council_week, err>>

\* cases[c + '_str'] = ["{:,}".format(round(x, 2)).replace(".0", "") ...]
StrCases ==
    /\ pc = "cases_strings"
    /\ cases' = [i \in 1..Len(cases) |->
                    cases[i] @@
                    [specimen_str |-> CutPointZero(FloatStr(cases[i].specimen)),
                     publish_str |-> CutPointZero(FloatStr(cases[i].publish)),
                     specimen_7_day_str |-> CutPointZero(FloatStr(cases[i].specimen_7_day)),
                     publish_7_day_str |-> CutPointZero(FloatStr(cases[i].publish_7_day))]]
    /\ pc' = "cases_color"
    /\ UNCHANGED <<driver, doses, fig, df_cases, df_alpha, module, api, population, regional, regional_pop, council,
                   council_week, err>>

\* [red] * (n - 5) + [grey] * 5: a list times a negative number is empty
Colors(n) ==
    [i \in 1..(IF n > Grey THEN n - Grey ELSE 0) |-> "rgba(150, 65, 65, 0.5)"]
        \o [i \in 1..Grey |-> "rgb(200, 200, 200)"]

\* cases['color'] = [red] * (len(cases.index) - 5) + [grey] * 5: a column of
\* another length than the table raises
ColorCases ==
    /\ pc = "cases_color"
    /\ LET n == Len(cases)
           color == Colors(n)
       IN  IF Len(color) # n
           THEN /\ err' = "ValueError"
                /\ pc' = "raised"
                /\ UNCHANGED cases
           ELSE /\ cases' = [i \in 1..n |-> cases[i] @@ [color |-> color[i]]]
                /\ pc' = "cases_done"
                /\ UNCHANGED err
    /\ UNCHANGED <<driver, doses, fig, df_cases, df_alpha, module, api, population, regional, regional_pop, council,
                   council_week>>

\* the average drawn over every row
ScatterWhole(df, y, daily) ==
    [type |-> "Scatter", name |-> "7 Day Average",
     x |-> Column(df, "date"),
     y |-> Column(df, y),
     customdata |-> [i \in 1..Len(df) |->
                        <<df[i][(y \o "_str")], df[i][(daily \o "_str")]>>]]

\* go.Scatter of an average: the rows but the last 5, with their strings
Scatter(df, y, daily) ==
    [type |-> "Scatter", name |-> "7 Day Average",
     x |-> ButLast(Column(df, "date"), Grey),
     y |-> ButLast(Column(df, y), Grey),
     customdata |-> ButLast([i \in 1..Len(df) |->
                                <<df[i][(y \o "_str")], df[i][(daily \o "_str")]>>], Grey)]

\* go.Bar of the daily numbers: every row, in the colour of its row
Bar(df, y, name) ==
    [type |-> "Bar", name |-> name, x |-> Column(df, "date"), y |-> Column(df, y),
     color |-> Column(df, "color")]

\* Cases.graph_daily_cases_uk: the four traces of the figure
GraphDailyCases ==
    /\ pc = "cases_done"
    /\ fig' = <<Scatter(cases, "publish_7_day", "publish"),
                Bar(cases, "publish", "Daily Cases"),
                Scatter(cases, "specimen_7_day", "specimen"),
                Bar(cases, "specimen", "Daily Cases")>>
    /\ pc' = "cases_graphed"
    /\ UNCHANGED <<driver, doses, tables, module, api, population, err>>

\* ---- DeathsData.prepare_deaths_data and PlotDeaths.graph_daily_deaths_uk

\* the rows the API serves for the nation's deaths: newest date first
RECURSIVE DeathsNationRows(_, _)
DeathsNationRows(a, d) ==
    IF d = 0 THEN <<>>
    ELSE IF d \in Days(a)
    THEN <<[date |-> d, deaths |-> Rat(ShapeValue(a.shape, d))]>>
         \o DeathsNationRows(a, d - 1)
    ELSE DeathsNationRows(a, d - 1)

DeathsReadNational ==
    /\ pc = "deaths_read"
    /\ cases' = read_csv(DeathsNationRows(api.nation, MaxNatDate))
    /\ pc' = "deaths_sort"
    /\ UNCHANGED <<driver, doses, fig, df_cases, df_alpha, module, api, population, regional, regional_pop, council,
                   council_week, err>>

DeathsSortNational ==
    /\ pc = "deaths_sort"
    /\ cases' \in sort_values(cases, MaxNatDate)
    /\ pc' = "deaths_filter"
    /\ UNCHANGED <<driver, doses, fig, df_cases, df_alpha, module, api, population, regional, regional_pop, council,
                   council_week, err>>

\* deaths[deaths['date'] >= '2020-03-06']
DeathsFilterNational ==
    /\ pc = "deaths_filter"
    /\ cases' = SelectSeq(cases, LAMBDA r : r.date >= DEATHS_FROM)
    /\ pc' = "deaths_rolling"
    /\ UNCHANGED <<driver, doses, fig, df_cases, df_alpha, module, api, population, regional, regional_pop, council,
                   council_week, err>>

\* deaths['deaths_7_day'] = deaths['deaths'].rolling(window=7).mean()
DeathsRollingNational ==
    /\ pc = "deaths_rolling"
    /\ cases' = [i \in 1..Len(cases) |->
                    cases[i] @@
                    [deaths_7_day |-> rolling_mean(Column(cases, "deaths"), Window)[i]]]
    /\ pc' = "deaths_strings"
    /\ UNCHANGED <<driver, doses, fig, df_cases, df_alpha, module, api, population, regional, regional_pop, council,
                   council_week, err>>

\* deaths_str and deaths_7_day_str
DeathsStrNational ==
    /\ pc = "deaths_strings"
    /\ cases' = [i \in 1..Len(cases) |->
                    cases[i] @@
                    [deaths_str |-> WholeStr(cases[i].deaths),
                     deaths_7_day_str |-> FloatStr(cases[i].deaths_7_day)]]
    /\ pc' = "deaths_color"
    /\ UNCHANGED <<driver, doses, fig, df_cases, df_alpha, module, api, population, regional, regional_pop, council,
                   council_week, err>>

\* deaths['color'] = [red] * (len(deaths.index) - 5) + [grey] * 5; return
DeathsColorNational ==
    /\ pc = "deaths_color"
    /\ LET n == Len(cases)
           color == Colors(n)
       IN  IF Len(color) # n
           THEN /\ err' = "ValueError"
                /\ pc' = "raised"
                /\ UNCHANGED cases
           ELSE /\ cases' = [i \in 1..n |-> cases[i] @@ [color |-> color[i]]]
                /\ pc' = "deaths_done"
                /\ UNCHANGED err
    /\ UNCHANGED <<driver, doses, fig, df_cases, df_alpha, module, api, population, regional, regional_pop, council,
                   council_week>>

\* PlotDeaths.graph_daily_deaths_uk: the two traces of the figure
DeathsGraphDaily ==
    /\ pc = "deaths_done"
    /\ fig' = <<Scatter(cases, "deaths_7_day", "deaths"),
                Bar(cases, "deaths", "Daily Deaths")>>
    /\ pc' = "deaths_graphed"
    /\ UNCHANGED <<driver, doses, tables, module, api, population, err>>

NextNational ==
    \/ ReadCases \/ SortCases \/ FilterCases \/ RollingCases \/ StrCases
    \/ ColorCases \/ GraphDailyCases
    \/ DeathsReadNational \/ DeathsSortNational \/ DeathsFilterNational
    \/ DeathsRollingNational \/ DeathsStrNational \/ DeathsColorNational
    \/ DeathsGraphDaily

SpecNational == InitNational /\ [][NextNational]_vars

\* every prepare_* method of the two classes
InitPrepare == Init \/ InitNational
NextPrepare == Next \/ NextNational
SpecPrepare == InitPrepare /\ [][NextPrepare]_vars

\* ---- prepare_regional_cases_data where two codes are served under one
\* name: East Midlands as E12000004 and as E12000010
SameNameData ==
    {Areas("E12000004", Series(1, Window, 0, sh), "E12000010", Series(r[1], r[2], 0, "flat0")) :
        sh \in {"spike", "square"}, r \in {x \in Ranges : x[1] <= x[2]}}

InitSameName ==
    /\ module = "cases"
    /\ population \in PopTables
    /\ api \in {[nation |-> Absent, region |-> rd, council |-> DefaultCouncils] :
                  rd \in SameNameData}
    /\ pc = "regional_read"
    /\ cases = <<>>
    /\ regional = <<>>
    /\ regional_pop = <<>>
    /\ council = <<>>
    /\ council_week = <<>>
    /\ df_cases = <<>>
    /\ df_alpha = <<>>
    /\ err = ""
    /\ NotDriven

NextSameName == ReadRegional \/ SortRegional \/ July1Regional \/ RollingRegional

SpecSameName == InitSameName /\ [][NextSameName]_vars

---------------------------------------------------------------------------
(* Cases.table_cases_local_area and PlotDeaths.table_deaths_local_area:    *)
(* the councils ranked by rate and listed by name                          *)

MaxTableDate == 2

\* a < b for two float64 that are not NaN (none is negative here)
RECURSIVE LimbsLess(_, _)
LimbsLess(a, b) ==
    IF a = <<>> THEN FALSE
    ELSE IF a[1] # b[1] THEN a[1] < b[1]
    ELSE LimbsLess(Tail(a), Tail(b))

F64Less(a, b) ==
    IF b.m = <<>> THEN FALSE
    ELSE IF a.m = <<>> THEN TRUE
    ELSE IF a.e # b.e THEN a.e < b.e
    ELSE LimbsLess(a.m, b.m)

\* the same sort in ascending order
sort_values_ascending(df, col) ==
    LET valued == {r \in Range(df) : r[col] # F64NaN}
        rest == SelectSeq(df, LAMBDA r : r[col] = F64NaN)
    IN  {o \o rest : o \in {x \in Orders(valued) :
            \A i \in 1..Len(x) : \A j \in i + 1..Len(x) : ~F64Less(x[j][col], x[i][col])}}

\* the descending sort with the rows without a value put first
\* (na_position='first')
sort_values_na_first(df, col) ==
    LET valued == {r \in Range(df) : r[col] # F64NaN}
        rest == SelectSeq(df, LAMBDA r : r[col] = F64NaN)
    IN  {rest \o o : o \in {x \in Orders(valued) :
            \A i \in 1..Len(x) : \A j \in i + 1..Len(x) : ~F64Less(x[i][col], x[j][col])}}

\* df.sort_values(col, ascending=False): the rows with a value in
\* non-increasing order, those of equal value in any order (quicksort is
\* not stable), then the rows without a value in the order they had
sort_values_descending(df, col) ==
    LET valued == {r \in Range(df) : r[col] # F64NaN}
        rest == SelectSeq(df, LAMBDA r : r[col] = F64NaN)
    IN  {o \o rest : o \in {x \in Orders(valued) :
            \A i \in 1..Len(x) : \A j \in i + 1..Len(x) : ~F64Less(x[i][col], x[j][col])}}

\* the sort by name that lets go of the rows without a rate
sort_values_name_dropna(df) ==
    {x \in Orders({r \in Range(df) : ~IsNaN(r.population)}) :
        \A i \in 1..Len(x) : \A j \in i + 1..Len(x) :
            StrRank(x[i].area_name) <= StrRank(x[j].area_name)}

\* df.sort_values('area_name'): the rows in ascending order of the name,
\* those of equal name in any order
sort_values_name(df) ==
    {x \in Orders(Range(df)) :
        \A i \in 1..Len(x) : \A j \in i + 1..Len(x) :
            StrRank(x[i].area_name) <= StrRank(x[j].area_name)}

\* the rank taken from the label the row had before the sort
rank_of_label(df) == [i \in 1..Len(df) |-> df[i] @@ [rank |-> df[i].level_0 + 1]]

\* df['rank'] = df.index + 1
rank_column(df) == [i \in 1..Len(df) |-> df[i] @@ [rank |-> df[i].index + 1]]

\* three councils, each reporting nothing or a day or two of 5 or of 10
TableSeries ==
    {Absent} \cup {Series(r[1], r[2], 0, sh) :
                    r \in {x \in (1..MaxTableDate) \X (1..MaxTableDate) : x[1] <= x[2]},
                    sh \in {"flat5", "flat10"}}

TableCouncils ==
    {("E06000001" :> a) @@ ("E06000002" :> b) @@ ("E06000005" :> c) :
        a \in TableSeries, b \in TableSeries, c \in TableSeries}

\* self.council_week as prepare_council_*_data leaves it for what is served
CouncilWeekOf(mod, served, pop) ==
    LET metric == IF mod = "cases" THEN "publish" ELSE "deaths"
        rate == IF mod = "cases" THEN "cases_per_100000" ELSE "deaths_per_100000"
        csv == ApiRows(served, CodesOf(served), "ltla", mod, MaxDate, 1)
        sorted == CHOOSE t \in sort_values(read_csv(csv), MaxDate) : TRUE
    IN  AddRate(merge(WeeklyTotal(sorted, metric), GroupSum(pop)), rate, metric)

\* a workbook in which Darlington has a hundred people fewer than Hartlepool:
\* their rates for the same count differ from the fifth decimal on
NearPopulation ==
    LET all == melt(<<"E06000001", "E06000002", "E06000005", "E12000001", "E12000004">>, 1, 1)
    IN  [i \in 1..Len(all) |->
            IF all[i].Code = "E06000005" /\ all[i].age = "90+"
            THEN [all[i] EXCEPT !.population = 959900] ELSE all[i]]

InitTable ==
    /\ module \in {"cases", "deaths"}
    /\ population \in PopTables \cup {NearPopulation}
    /\ api \in {[nation |-> Absent, region |-> DefaultRegions(module), council |-> t] :
                  t \in TableCouncils}
    /\ pc = "table_value"
    /\ cases = <<>>
    /\ regional = <<>>
    /\ regional_pop = GroupSum(population)
    /\ council = <<>>
    /\ council_week = CouncilWeekOf(module, api.council, population)
    /\ df_cases = <<>>
    /\ df_alpha = <<>>
    /\ err = ""
    /\ NotDriven

\* df_cases = self.council_week.sort_values(rate, ascending=False).reset_index()
SortByValue ==
    /\ pc = "table_value"
    /\ \E t \in sort_values_descending(council_week,
                    IF module = "cases" THEN "cases_per_100000" ELSE "deaths_per_100000") :
          df_cases' = reset_index(t)
    /\ pc' = "table_value_rank"
    /\ UNCHANGED <<driver, doses, fig, df_alpha, module, api, population, cases, regional, regional_pop,
                   council, council_week, err>>

RankByValue ==
    /\ pc = "table_value_rank"
    /\ df_cases' = rank_column(df_cases)
    /\ pc' = "table_name"
    /\ UNCHANGED <<driver, doses, fig, df_alpha, module, api, population, cases, regional, regional_pop,
                   council, council_week, err>>

\* df_alpha = self.council_week.sort_values('area_name').reset_index()
SortByName ==
    /\ pc = "table_name"
    /\ \E t \in sort_values_name(council_week) : df_alpha' = reset_index(t)
    /\ pc' = "table_name_rank"
    /\ UNCHANGED <<driver, doses, fig, df_cases, module, api, population, cases, regional, regional_pop,
                   council, council_week, err>>

RankByName ==
    /\ pc = "table_name_rank"
    /\ df_alpha' = rank_column(df_alpha)
    /\ pc' = "table_done"
    /\ UNCHANGED <<driver, doses, fig, df_cases, module, api, population, cases, regional, regional_pop,
                   council, council_week, err>>

\* go.Table(cells=dict(values=[list(df['rank']), list(df['area_name']),
\*                             list(df[rate].round(2))]), ...)
Table(df, visible) ==
    [type |-> "table", visible |-> visible,
     cells |-> <<Column(df, "rank"), Column(df, "area_name"),
                 [i \in 1..Len(df) |->
                     around(df[i][IF module = "cases" THEN "cases_per_100000"
                                                      ELSE "deaths_per_100000"])]>>]

\* table.add_trace(go.Table(...)) for df_cases, then for df_alpha
TableCells ==
    /\ pc = "table_done"
    /\ fig' = <<Table(df_cases, TRUE), Table(df_alpha, FALSE)>>
    /\ pc' = "table_drawn"
    /\ UNCHANGED <<driver, doses, tables, module, api, population, err>>

NextTable == SortByValue \/ RankByValue \/ SortByName \/ RankByName \/ TableCells

SpecTable == InitTable /\ [][NextTable]_vars

\* the regional tables of both classes for East Midlands reporting from the
\* first day on, and the tables of the councils
InitDisplay ==
    \/ /\ Init
       /\ api.council = DefaultCouncils
       /\ api.region["E12000001"] = Absent
       /\ api.region["E12000004"].lo = 1
    \/ InitTable

SpecDisplay == InitDisplay /\ [][Next \/ NextTable]_vars

---------------------------------------------------------------------------
(* main.py: the prompt, modules_dict and the loop that calls each          *)
(* module's main(); the statements of the four main() functions            *)

MaxTyped == 5

\* the variables of the data pipeline, which the loop leaves alone
data == <<api, population, cases, regional, regional_pop, council,
          council_week, df_cases, df_alpha, doses, fig>>

\* the three objects main.py builds before modules_dict
Global ==
    [population  |-> [type |-> "DataFrame", of |-> "population"],
     template    |-> [type |-> "dict", of |-> "template"],
     plot_config |-> [type |-> "dict", of |-> "plot_config"]]

\* modules_dict, in insertion order: the function and its argument list
modules_dict ==
    <<[key |-> "cases", main |-> "covid_cases.main",
       args |-> <<"population", "template", "plot_config">>],
      [key |-> "deaths", main |-> "covid_deaths.main",
       args |-> <<"population", "template", "plot_config">>],
      [key |-> "hospital", main |-> "covid_hospitalisations.main",
       args |-> <<"template", "plot_config">>],
      [key |-> "vaccinations", main |-> "covid_vaccinations.main",
       args |-> <<"population", "template", "plot_config">>]>>

Keys == {modules_dict[i].key : i \in 1..Len(modules_dict)}
Entry(m) == CHOOSE x \in Range(modules_dict) : x.key = m

\* a name of main() and an attribute of the object its methods run on
Local(name) == <<"local", name>>
Attr(name) == <<"self", name>>

\* one statement of a main(): what it calls, whether the call constructs a
\* new object, the names it reads, those it uses as a DataFrame, the names
\* it sets to what another name holds and the names it sets to new values
Stmt(call, new, reads, frames, copies, makes) ==
    [call |-> call, new |-> new, reads |-> reads, frames |-> frames,
     copies |-> copies, makes |-> makes]

\* def main(...) of each module: the parameters in the order of the def
Params(main) ==
    CASE main = "covid_cases.main" -> <<"template", "plot_config", "population">>
      [] main = "covid_deaths.main" -> <<"population", "template", "plot_config">>
      [] main = "covid_hospitalisations.main" -> <<"template", "plot_config">>
      [] main = "covid_vaccinations.main" -> <<"population", "template", "plot_config">>

\* covid_cases.main with graph_regional_cases_specimen called before
\* graph_regional_cases_publish
covid_cases_main_specimen_first ==
    <<Stmt("Cases", TRUE,
           {Local("template"), Local("plot_config"), Local("population")}, {},
           {<<Attr("template"), Local("template")>>,
            <<Attr("plot_config"), Local("plot_config")>>,
            <<Attr("population"), Local("population")>>}, {}),
      Stmt("prepare_cases_data", FALSE, {}, {}, {},
           {<<Attr("cases"), "DataFrame">>}),
      Stmt("prepare_regional_cases_data", FALSE,
           {Attr("population")}, {Attr("population")}, {},
           {<<Attr("regional_pop"), "DataFrame">>,
            <<Attr("regional_cases"), "DataFrame">>}),
      Stmt("prepare_council_cases_data", FALSE,
           {Attr("regional_pop")}, {Attr("regional_pop")}, {},
           {<<Attr("council_week"), "DataFrame">>}),
      Stmt("graph_daily_cases_uk", FALSE,
           {Attr("cases"), Attr("template"), Attr("plot_config")}, {Attr("cases")},
           {}, {}),
      Stmt("graph_regional_cases_specimen", FALSE,
           {Attr("regional_cases"), Attr("regions"), Attr("plot_config")},
           {Attr("regional_cases")}, {}, {}),
      Stmt("graph_regional_cases_publish", FALSE,
           {Attr("regional_cases"), Attr("plot_config")}, {Attr("regional_cases")},
           {}, {<<Attr("regions"), "list">>}),
      Stmt("table_cases_local_area", FALSE,
           {Attr("council_week")}, {Attr("council_week")}, {}, {})>>

covid_cases_main ==
    <<Stmt("Cases", TRUE,
           {Local("template"), Local("plot_config"), Local("population")}, {},
           {<<Attr("template"), Local("template")>>,
            <<Attr("plot_config"), Local("plot_config")>>,
            <<Attr("population"), Local("population")>>}, {}),
      Stmt("prepare_cases_data", FALSE, {}, {}, {},
           {<<Attr("cases"), "DataFrame">>}),
      Stmt("prepare_regional_cases_data", FALSE,
           {Attr("population")}, {Attr("population")}, {},
           {<<Attr("regional_pop"), "DataFrame">>,
            <<Attr("regional_cases"), "DataFrame">>}),
      Stmt("prepare_council_cases_data", FALSE,
           {Attr("regional_pop")}, {Attr("regional_pop")}, {},
           {<<Attr("council_week"), "DataFrame">>}),
      Stmt("graph_daily_cases_uk", FALSE,
           {Attr("cases"), Attr("template"), Attr("plot_config")}, {Attr("cases")},
           {}, {}),
      Stmt("graph_regional_cases_publish", FALSE,
           {Attr("regional_cases"), Attr("plot_config")}, {Attr("regional_cases")},
           {}, {<<Attr("regions"), "list">>}),
      Stmt("graph_regional_cases_specimen", FALSE,
           {Attr("regional_cases"), Attr("regions"), Attr("plot_config")},
           {Attr("regional_cases")}, {}, {}),
      Stmt("table_cases_local_area", FALSE,
           {Attr("council_week")}, {Attr("council_week")}, {}, {})>>

covid_deaths_main ==
    <<Stmt("DeathsData", TRUE, {Local("population")}, {},
           {<<Attr("population"), Local("population")>>}, {}),
      Stmt("prepare_deaths_data", FALSE, {}, {}, {},
           {<<Local("deaths_df"), "DataFrame">>}),
      Stmt("prepare_regional_deaths_data", FALSE,
           {Attr("population")}, {Attr("population")}, {},
           {<<Attr("regional_pop"), "DataFrame">>,
            <<Local("regional_df"), "DataFrame">>}),
      Stmt("prepare_council_deaths_data", FALSE,
           {Attr("regional_pop")}, {Attr("regional_pop")}, {},
           {<<Local("council_df"), "DataFrame">>}),
      Stmt("data", FALSE,
           {Local("deaths_df"), Local("regional_df"), Local("council_df")}, {},
           {<<Local("data['deaths']"), Local("deaths_df")>>,
            <<Local("data['regional']"), Local("regional_df")>>,
            <<Local("data['council']"), Local("council_df")>>}, {}),
      Stmt("PlotDeaths", TRUE,
           {Local("data['deaths']"), Local("data['regional']"), Local("data['council']"),
            Local("template"), Local("plot_config")}, {},
           {<<Attr("deaths"), Local("data['deaths']")>>,
            <<Attr("regional_deaths"), Local("data['regional']")>>,
            <<Attr("council_week"), Local("data['council']")>>,
            <<Attr("template"), Local("template")>>,
            <<Attr("plot_config"), Local("plot_config")>>}, {}),
      Stmt("graph_daily_deaths_uk", FALSE,
           {Attr("deaths"), Attr("template"), Attr("plot_config")}, {Attr("deaths")},
           {}, {}),
      Stmt("graph_region_daily_deaths", FALSE,
           {Attr("regional_deaths"), Attr("plot_config")}, {Attr("regional_deaths")},
           {}, {}),
      Stmt("table_deaths_local_area", FALSE,
           {Attr("council_week")}, {Attr("council_week")}, {}, {})>>

covid_hospitalisations_main ==
    <<Stmt("Hospitalisations", TRUE, {Local("template"), Local("plot_config")}, {},
           {<<Attr("template"), Local("template")>>,
            <<Attr("plot_config"), Local("plot_config")>>}, {}),
      Stmt("prepare_hospital_data", FALSE, {}, {}, {},
           {<<Attr("hospital"), "DataFrame">>}),
      Stmt("graph_daily_admissions_uk", FALSE,
           {Attr("hospital"), Attr("template"), Attr("plot_config")}, {Attr("hospital")},
           {}, {}),
      Stmt("graph_in_hospital_uk", FALSE,
           {Attr("hospital"), Attr("template"), Attr("plot_config")}, {Attr("hospital")},
           {}, {})>>

covid_vaccinations_main ==
    <<Stmt("VaccinationsData", TRUE, {Local("population")}, {},
           {<<Attr("population"), Local("population")>>}, {}),
      Stmt("prepare_vaccination_data", FALSE, {}, {}, {},
           {<<Local("vaccine_df"), "DataFrame">>}),
      Stmt("prepare_age_group_vaccine_data", FALSE,
           {Attr("population")}, {Attr("population")}, {},
           {<<Attr("recent_thursday"), "str">>,
            <<Local("vaccine_age"), "DataFrame">>}),
      Stmt("thursday", FALSE, {Attr("recent_thursday")}, {},
           {<<Local("thursday"), Attr("recent_thursday")>>}, {}),
      Stmt("data", FALSE, {Local("vaccine_df"), Local("vaccine_age")}, {},
           {<<Local("data['vaccine']"), Local("vaccine_df")>>,
            <<Local("data['vaccine_age']"), Local("vaccine_age")>>}, {}),
      Stmt("PlotVaccinations", TRUE,
           {Local("data['vaccine']"), Local("data['vaccine_age']"), Local("population"),
            Local("thursday"), Local("template"), Local("plot_config")}, {},
           {<<Attr("vaccine"), Local("data['vaccine']")>>,
            <<Attr("vaccine_age"), Local("data['vaccine_age']")>>,
            <<Attr("population"), Local("population")>>,
            <<Attr("recent_thursday"), Local("thursday")>>,
            <<Attr("template"), Local("template")>>,
            <<Attr("plot_config"), Local("plot_config")>>}, {}),
      Stmt("graph_vaccine_total", FALSE,
           {Attr("vaccine"), Attr("template"), Attr("plot_config")}, {Attr("vaccine")},
           {}, {}),
      Stmt("graph_percentage_vaccinated", FALSE,
           {Attr("population"), Attr("vaccine"), Attr("plot_config")},
           {Attr("population"), Attr("vaccine")}, {}, {}),
      Stmt("graph_daily_vaccinations", FALSE,
           {Attr("vaccine"), Attr("template"), Attr("plot_config")}, {Attr("vaccine")},
           {}, {}),
      Stmt("graph_percentage_vaccinated_age", FALSE,
           {Attr("vaccine_age"), Attr("recent_thursday"), Attr("plot_config")},
           {Attr("vaccine_age")}, {}, {})>>

Body(main) ==
    CASE main = "covid_cases.main" -> covid_cases_main
      [] main = "covid_deaths.main" -> covid_deaths_main
      [] main = "covid_hospitalisations.main" -> covid_hospitalisations_main
      [] main = "covid_vaccinations.main" -> covid_vaccinations_main

\* f(*args): the arguments go to the parameters by position
Bind(main, args) ==
    LET params == Params(main)
    IN  [n \in {Local(params[i]) : i \in 1..Len(params)} |->
            Global[args[CHOOSE i \in 1..Len(params) : params[i] = n[2]]]]

\* str.split(', ') of the typed line, which is held in pieces: a piece is
\* the separator or the text between two separators
Sep == ", "

RECURSIVE split(_)
split(s) ==
    IF s = <<>> THEN <<"">>
    ELSE IF Head(s) = Sep THEN <<"">> \o split(Tail(s))
    ELSE IF Len(s) = 1 THEN s
    ELSE <<Head(s)>> \o split(Tail(Tail(s)))

Words == {"all", "cases", "deaths", "hospital", "vaccinations", "tests"}

\* the lines that can be typed: no two pieces of text without a separator
Lines ==
    {s \in UNION {[1..n -> Words \cup {Sep}] : n \in 0..MaxTyped} :
        \A i \in 1..Len(s) - 1 : s[i] = Sep \/ s[i + 1] = Sep}

InitMain ==
    /\ typed \in Lines
    /\ pc = "input"
    /\ module = ""
    /\ loop = <<>>
    /\ step = 0
    /\ env = <<>>
    /\ called = <<>>
    /\ err = ""
    /\ api = <<>>
    /\ population = <<>>
    /\ cases = <<>>
    /\ regional = <<>>
    /\ regional_pop = <<>>
    /\ council = <<>>
    /\ council_week = <<>>
    /\ df_cases = <<>>
    /\ df_alpha = <<>>
    /\ NoDoses
    /\ fig = <<>>

\* modules = input(...); the for loop's iterable
Ask ==
    /\ pc = "input"
    /\ loop' = IF typed = <<"all">>
               THEN [i \in 1..Len(modules_dict) |-> modules_dict[i].key]
               ELSE split(typed)
    /\ pc' = "for"
    /\ UNCHANGED <<data, module, typed, step, env, called, err>>

\* modules_dict[m][0](*modules_dict[m][1]) for the next m of the loop
CallModule ==
    /\ pc = "for"
    /\ IF loop = <<>>
       THEN /\ pc' = "end"
            /\ UNCHANGED <<module, loop, step, env, called, err>>
       ELSE IF Head(loop) \notin Keys
       THEN /\ err' = "KeyError"
            /\ pc' = "raised"
            /\ UNCHANGED <<module, loop, step, env, called>>
       ELSE LET entry == Entry(Head(loop))
            IN  /\ module' = entry.key
                /\ env' = Bind(entry.main, entry.args)
                /\ called' = Append(called, [module |-> entry.key, call |-> "main"])
                /\ step' = 1
                /\ loop' = Tail(loop)
                /\ pc' = "body"
                /\ UNCHANGED err
    /\ UNCHANGED <<data, typed>>

\* the names a statement leaves bound: a constructor starts a new object
Bound(st) ==
    {n \in DOMAIN env : ~st.new \/ n[1] = "local"}
        \cup {c[1] : c \in st.copies} \cup {m[1] : m \in st.makes}

\* the next statement of the running main()
Statement ==
    /\ pc = "body"
    /\ step <= Len(Body(Entry(module).main))
    /\ LET st == Body(Entry(module).main)[step]
       IN  /\ called' = Append(called, [module |-> module, call |-> st.call])
           /\ IF \/ \E n \in st.reads : n \notin DOMAIN env
                 \/ \E n \in st.frames : env[n].type # "DataFrame"
              THEN /\ err' = "AttributeError"
                   /\ pc' = "raised"
                   /\ UNCHANGED <<env, step>>
              ELSE /\ env' =
                        [n \in Bound(st) |->
                            IF \E c \in st.copies : c[1] = n
                            THEN env[(CHOOSE c \in st.copies : c[1] = n)[2]]
                            ELSE IF \E m \in st.makes : m[1] = n
                            THEN [type |-> (CHOOSE m \in st.makes : m[1] = n)[2],
                                  of |-> st.call]
                            ELSE env[n]]
                   /\ step' = step + 1
                   /\ UNCHANGED <<pc, err>>
    /\ UNCHANGED <<data, module, typed, loop>>

\* main() of the module returns to the loop
ReturnMain ==
    /\ pc = "body"
    /\ step > Len(Body(Entry(module).main))
    /\ pc' = "for"
    /\ step' = 0
    /\ env' = <<>>
    /\ UNCHANGED <<data, module, typed, loop, called, err>>

NextMain == Ask \/ CallModule \/ Statement \/ ReturnMain

SpecMain == InitMain /\ [][NextMain]_vars

\* ---- main() of one module called with each argument in the parameter of
\* its own name
InitCalled ==
    /\ module \in Keys
    /\ typed = <<>>
    /\ pc = "body"
    /\ loop = <<>>
    /\ step = 1
    /\ env = [n \in {Local(p) : p \in Range(Params(Entry(module).main))} |-> Global[n[2]]]
    /\ called = <<[module |-> module, call |-> "main"]>>
    /\ err = ""
    /\ api = <<>>
    /\ population = <<>>
    /\ cases = <<>>
    /\ regional = <<>>
    /\ regional_pop = <<>>
    /\ council = <<>>
    /\ council_week = <<>>
    /\ df_cases = <<>>
    /\ df_alpha = <<>>
    /\ NoDoses
    /\ fig = <<>>

InitCalls == InitMain \/ InitCalled

SpecCalls == InitCalls /\ [][NextMain]_vars

---------------------------------------------------------------------------
(* VaccinationsData.prepare_vaccination_data: the daily doses and their    *)
(* 7 day average                                                           *)

MaxVaccineDate == 10
VACCINE_FROM == 2

RatSub(x, y) == RatAdd(x, <<-y[1], y[2]>>)

\* the cumulative total on day d when inc[i] doses are given on day i
RECURSIVE Total(_, _)
Total(inc, d) == IF d = 0 THEN 0 ELSE Total(inc, d - 1) + inc[d]

\* the rows the API serves, newest first: every day up to d but day skip
\* (0: no day is missing), the second doses being the first doses of the day
\* before; 1 or 4 doses are given on a day
RECURSIVE VaccineRows(_, _, _)
VaccineRows(inc, skip, d) ==
    IF d = 0 THEN <<>>
    ELSE IF d = skip THEN VaccineRows(inc, skip, d - 1)
    ELSE <<[date |-> d, total_first |-> Rat(Total(inc, d)),
            total_second |-> Rat(Total(inc, d - 1))]>>
         \o VaccineRows(inc, skip, d - 1)

VaccineData ==
    {VaccineRows(inc, skip, MaxVaccineDate) :
        inc \in [1..MaxVaccineDate -> {1, 4}], skip \in {0, 6}}

\* Series.diff() with the first row given 0
diff_from_zero(s) ==
    [k \in 1..Len(s) |->
        IF k = 1 THEN Rat(0)
        ELSE IF IsNaN(s[k]) \/ IsNaN(s[k - 1]) THEN NaN
        ELSE RatSub(s[k], s[k - 1])]

\* Series.diff(): each row less the row before it, NaN on the first row
diff(s) ==
    [k \in 1..Len(s) |->
        IF k = 1 \/ IsNaN(s[k]) \/ IsNaN(s[k - 1]) THEN NaN
        ELSE RatSub(s[k], s[k - 1])]

InitVaccine ==
    /\ module = "vaccinations"
    /\ api \in {[vaccine |-> v] : v \in VaccineData}
    /\ pc = "vaccine_read"
    /\ population = <<>>
    /\ cases = <<>>
    /\ regional = <<>>
    /\ regional_pop = <<>>
    /\ council = <<>>
    /\ council_week = <<>>
    /\ df_cases = <<>>
    /\ df_alpha = <<>>
    /\ err = ""
    /\ typed = <<>>
    /\ loop = <<>>
    /\ step = 0
    /\ env = <<>>
    /\ called = <<>>
    /\ NoDoses
    /\ fig = <<>>

\* vaccine = pd.read_csv(vaccine_url); the filter on the date and the sort
ReadVaccine ==
    /\ pc = "vaccine_read"
    /\ \E t \in sort_values(SelectSeq(read_csv(api.vaccine),
                                      LAMBDA r : r.date >= VACCINE_FROM),
                            MaxVaccineDate) :
          vaccine' = t
    /\ pc' = "vaccine_totals"
    /\ UNCHANGED <<driver, tables, module, api, population, err,
                   today, recent_thursday, age_group_pop, vaccine_age, fig>>

\* vaccine[c + '_str'] = ["{:,}".format(int(x)) for x in vaccine[c]]
StrTotals ==
    /\ pc = "vaccine_totals"
    /\ IF \E i \in 1..Len(vaccine) :
             IsNaN(vaccine[i].total_first) \/ IsNaN(vaccine[i].total_second)
       THEN /\ err' = "ValueError"
            /\ pc' = "raised"
            /\ UNCHANGED vaccine
       ELSE /\ vaccine' =
                 [i \in 1..Len(vaccine) |->
                     vaccine[i] @@
                     [total_first_str |-> Comma(vaccine[i].total_first[1]),
                      total_second_str |-> Comma(vaccine[i].total_second[1])]]
            /\ pc' = "vaccine_daily"
            /\ UNCHANGED err
    /\ UNCHANGED <<driver, tables, module, api, population,
                   today, recent_thursday, age_group_pop, vaccine_age, fig>>

\* vaccine['daily_1'] = vaccine['total_first'].diff(), and daily_2
DailyDoses ==
    /\ pc = "vaccine_daily"
    /\ vaccine' =
          [i \in 1..Len(vaccine) |->
              vaccine[i] @@
              [daily_1 |-> diff(Column(vaccine, "total_first"))[i],
               daily_2 |-> diff(Column(vaccine, "total_second"))[i]]]
    /\ pc' = "vaccine_average"
    /\ UNCHANGED <<driver, tables, module, api, population, err,
                   today, recent_thursday, age_group_pop, vaccine_age, fig>>

\* vaccine['daily_1_7_day_avg'] = vaccine['daily_1'].rolling(window=7).mean()
AverageDoses ==
    /\ pc = "vaccine_average"
    /\ vaccine' =
          [i \in 1..Len(vaccine) |->
              vaccine[i] @@
              [daily_1_7_day_avg |-> rolling_mean(Column(vaccine, "daily_1"), Window)[i],
               daily_2_7_day_avg |-> rolling_mean(Column(vaccine, "daily_2"), Window)[i]]]
    /\ pc' = "vaccine_strings"
    /\ UNCHANGED <<driver, tables, module, api, population, err,
                   today, recent_thursday, age_group_pop, vaccine_age, fig>>

\* the strings of the daily doses and of the rounded averages; return vaccine
StrDoses ==
    /\ pc = "vaccine_strings"
    /\ vaccine' =
          [i \in 1..Len(vaccine) |->
              vaccine[i] @@
              [daily_1_str |-> WholeStr(vaccine[i].daily_1),
               daily_2_str |-> WholeStr(vaccine[i].daily_2),
               daily_1_7_day_avg_str |-> FloatStr(vaccine[i].daily_1_7_day_avg),
               daily_2_7_day_avg_str |-> FloatStr(vaccine[i].daily_2_7_day_avg)]]
    /\ pc' = "vaccine_done"
    /\ UNCHANGED <<driver, tables, module, api, population, err,
                   today, recent_thursday, age_group_pop, vaccine_age, fig>>

NextVaccine == ReadVaccine \/ StrTotals \/ DailyDoses \/ AverageDoses \/ StrDoses

SpecVaccine == InitVaccine /\ [][NextVaccine]_vars

---------------------------------------------------------------------------
(* VaccinationsData.prepare_age_group_vaccine_data: the populations of the *)
(* age groups, the most recent Thursday and the table by age and dose      *)

MaxToday == 13

\* value_vars=list(range(90)) + ['90+']: the ages of the workbook
value_vars == [i \in 1..91 |-> IF i <= 90 THEN ToString(i - 1) ELSE "90+"]

\* the workbook melted: one row per age and nation, age by age; England has
\* people[1] at each age and more by people[2] with each year of age
Melted(people) ==
    [k \in 1..(2 * Len(value_vars)) |->
        LET a == (k - 1) \div 2 + 1
        IN  IF k % 2 = 1
            THEN [Name |-> "ENGLAND", Code |-> "E92000001", age |-> value_vars[a],
                  population |-> people[1] + people[2] * a]
            ELSE [Name |-> "WALES", Code |-> "W92000004", age |-> value_vars[a],
                  population |-> 30]]

\* range(lo, hi) as ages
AgeRange(lo, hi) == {ToString(i) : i \in lo..(hi - 1)}

\* the age groups with '90+' left out of the last
AgeGroupsTo89 ==
    <<AgeRange(0, 30), AgeRange(30, 35), AgeRange(35, 40), AgeRange(40, 45),
      AgeRange(45, 50), AgeRange(50, 55), AgeRange(55, 60), AgeRange(60, 65),
      AgeRange(65, 70), AgeRange(70, 75), AgeRange(75, 80), AgeRange(80, 90)>>

\* the arguments of the 12 isin(...) of age_group_pop
AgeGroups ==
    <<AgeRange(0, 30), AgeRange(30, 35), AgeRange(35, 40), AgeRange(40, 45),
      AgeRange(45, 50), AgeRange(50, 55), AgeRange(55, 60), AgeRange(60, 65),
      AgeRange(65, 70), AgeRange(70, 75), AgeRange(75, 80),
      AgeRange(80, 90) \cup {"90+"}>>

\* df['population'].sum() of a table of whole numbers
RECURSIVE SumPopulation(_)
SumPopulation(df) ==
    IF df = <<>> THEN 0 ELSE df[1].population + SumPopulation(Tail(df))

\* day.weekday() of a date given as its ordinal: Monday is 0
weekday(d) == (d + 6) % 7

\* pd.date_range(a, b): every day from a to b
date_range(a, b) == [i \in 1..(b - a + 1) |-> a + i - 1]

\* day.strftime("%d-%B-%Y") for a day of 2021
strftime(d) ==
    LET lengths == <<31, 28, 31, 30, 31, 30, 31, 31, 30, 31, 30, 31>>
        names == <<"January", "February", "March", "April", "May", "June", "July",
                   "August", "September", "October", "November", "December">>
        n == d - 737790
        before(m) == LET RECURSIVE upto(_)
                         upto(k) == IF k = 0 THEN 0 ELSE lengths[k] + upto(k - 1)
                     IN  upto(m - 1)
        month == CHOOSE m \in 1..12 : before(m) < n /\ n <= before(m) + lengths[m]
    IN  <<n - before(month), names[month], 2021>>

\* the first Thursday of the days given, None when there is none
RECURSIVE FirstThursday(_)
FirstThursday(days) ==
    IF days = <<>> THEN <<"None">>
    ELSE IF weekday(Head(days)) = 3 THEN strftime(Head(days))
    ELSE FirstThursday(Tail(days))

\* get_recent_thursday with week_ago 5 days back
get_recent_thursday_from_5(t) == FirstThursday(date_range(t - 5, t))

\* get_recent_thursday(): week_ago = today - timedelta(days=6)
get_recent_thursday(t) == FirstThursday(date_range(t - 6, t))

\* a list times k
ListTimes(l, k) == [i \in 1..(Len(l) * k) |-> l[((i - 1) % Len(l)) + 1]]

\* a row of the sheet 'NHS Region': the region in words, 12 numbers of
\* first doses and 12 of second doses by age group
SheetRow(region, scale) ==
    <<region>> \o [g \in 1..12 |-> Rat(scale * (10 * g + 5))]
               \o [g \in 1..12 |-> Rat(scale * g)]

\* the sheets that are served: with or without a total, the total being
\* named 'Total' with a reference number
Sheets ==
    {<<SheetRow(<<"NaN">>, 0), SheetRow(<<"London">>, 1), SheetRow(<<"Total", "4">>, 7)>>,
     <<SheetRow(<<"London">>, 1), SheetRow(<<"Total">>, 5), SheetRow(<<"NaN">>, 0)>>,
     <<SheetRow(<<"London">>, 1)>>}

InitAgeGroup ==
    /\ module = "vaccinations"
    /\ population \in {Melted(p) : p \in {<<1000, 0>>, <<500, 7>>}}
    /\ api \in {[sheet |-> s] : s \in Sheets}
    /\ today \in 737911..(737911 + MaxToday)
    /\ pc = "age_england"
    /\ cases = <<>>
    /\ regional = <<>>
    /\ regional_pop = <<>>
    /\ council = <<>>
    /\ council_week = <<>>
    /\ df_cases = <<>>
    /\ df_alpha = <<>>
    /\ err = ""
    /\ typed = <<>>
    /\ loop = <<>>
    /\ step = 0
    /\ env = <<>>
    /\ called = <<>>
    /\ vaccine = <<>>
    /\ recent_thursday = <<>>
    /\ age_group_pop = <<>>
    /\ vaccine_age = <<>>
    /\ fig = <<>>

\* england = ...; age_group_pop = [...]
AgeGroupPop ==
    /\ pc = "age_england"
    /\ LET england == Where(population, "Name", "ENGLAND")
       IN  age_group_pop' =
               [g \in 1..Len(AgeGroups) |->
                   SumPopulation(SelectSeq(england, LAMBDA r : r.age \in AgeGroups[g]))]
    /\ pc' = "age_thursday"
    /\ UNCHANGED <<driver, tables, module, api, population, err,
                   vaccine, today, recent_thursday, vaccine_age, fig>>

\* self.recent_thursday = get_recent_thursday()
RecentThursday ==
    /\ pc = "age_thursday"
    /\ recent_thursday' = get_recent_thursday(today)
    /\ pc' = "age_read"
    /\ UNCHANGED <<driver, tables, module, api, population, err,
                   vaccine, today, age_group_pop, vaccine_age, fig>>

\* the URL, read_excel, the rows without a region dropped and the rows
\* whose region contains 'Total' kept
ReadVaccineAge ==
    /\ pc = "age_read"
    /\ IF recent_thursday = <<"None">>
       THEN /\ err' = "TypeError"
            /\ pc' = "raised"
            /\ UNCHANGED vaccine_age
       ELSE /\ vaccine_age' =
                 SelectSeq(SelectSeq(api.sheet, LAMBDA r : r[1] # <<"NaN">>),
                           LAMBDA r : \E w \in 1..Len(r[1]) : r[1][w] = "Total")
            /\ pc' = "age_table"
            /\ UNCHANGED err
    /\ UNCHANGED <<driver, tables, module, api, population,
                   vaccine, today, recent_thursday, age_group_pop, fig>>

\* vaccine_age = pd.DataFrame({...}); the percent column; return
BuildVaccineAge ==
    /\ pc = "age_table"
    /\ IF vaccine_age = <<>>
       THEN /\ err' = "IndexError"
            /\ pc' = "raised"
            /\ UNCHANGED vaccine_age
       ELSE LET age == ListTimes(<<"Under 30", "30-34", "35-39", "40-45", "45-49",
                                   "50-54", "55-59", "60-64", "65-69", "70-74",
                                   "75-79", "Over 80">>, 2)
                dose == [i \in 1..12 |-> "2 Doses"] \o [i \in 1..12 |-> "1+ Doses"]
                vaccinations == SubSeq(vaccine_age[1], 14, 25)
                                    \o SubSeq(vaccine_age[1], 2, 13)
                pop == ListTimes(age_group_pop, 2)
            IN  /\ vaccine_age' =
                      [i \in 1..Len(age) |->
                          [index |-> i - 1, age |-> age[i], dose |-> dose[i],
                           vaccinations |-> vaccinations[i], population |-> pop[i],
                           percent |-> F64Mul(F64Div(F64(vaccinations[i]), pop[i]), 100)]]
                /\ pc' = "age_done"
                /\ UNCHANGED err
    /\ UNCHANGED <<driver, tables, module, api, population,
                   vaccine, today, recent_thursday, age_group_pop, fig>>

NextAgeGroup == AgeGroupPop \/ RecentThursday \/ ReadVaccineAge \/ BuildVaccineAge

SpecAgeGroup == InitAgeGroup /\ [][NextAgeGroup]_vars

---------------------------------------------------------------------------
(* Properties of the pipeline                                             *)

\* a set of rows of distinct dates as a sequence, oldest first
SetByDate(S) ==
    [k \in 1..Cardinality(S) |->
        CHOOSE r \in S : Cardinality({x \in S : x.date <= r.date}) = k]

ByDate(df) == SetByDate(Range(df))

\* the series the API serves for one area, oldest first
Served(csv, code) == ByDate(Where(csv, "area_code", code))

\* the rows of one area in a table, in the order of the table
Of(df, code) == Where(df, "area_code", code)

\* the columns that are smoothed, each with the column of its 7-day average
Smoothed ==
    IF module = "cases"
    THEN {<<"specimen", "specimen_7_day">>, <<"publish", "publish_7_day">>}
    ELSE {<<"deaths", "deaths_7_day">>}

\* the rate columns, each with the column it is computed from
RegionalRates ==
    IF module = "cases"
    THEN {<<"specimen_7_day", "specimen_per_100k">>,
          <<"publish_7_day", "publish_per_100k">>}
    ELSE {<<"deaths_7_day", "deaths_per_100k">>}

CouncilMetric == IF module = "cases" THEN "publish" ELSE "deaths"
CouncilRate == IF module = "cases" THEN "cases_per_100000" ELSE "deaths_per_100000"

\* The steps of prepare_council_* leave the regional table as
\* prepare_regional_* returned it: it is looked at up to there.
\* the regional table holds its 7-day averages
AfterRolling == pc \in {"regional_pop", "regional_merge", "regional_rate", "council_read"}
\* the regional table holds its rates
AfterRegionalRate == pc = "council_read"
\* july_1 has been applied to every group and none raised
AfterJuly1 == module = "cases" /\ (pc = "regional_rolling" \/ AfterRolling)

\* C1: the 7-day average stored on a row of the regional table is the mean
\* of the rows of the same (area_name, area_code) that are at most 6 places
\* before it in that area's series by date: no row of another area, and no
\* later row, enters it
C1_OwnAreaWindow ==
    AfterRolling =>
        \A i \in 1..Len(regional) :
            LET r == regional[i]
                own == {x \in Range(regional) :
                            x.area_code = r.area_code /\ x.area_name = r.area_name}
                upto == {x \in own : x.date <= r.date}
                win == {x \in upto :
                            Cardinality({y \in upto : y.date >= x.date}) <= Window}
                s == SetByDate(win)
            IN  \A c \in Smoothed : r[c[2]] = Mean(Column(s, c[1]))

\* East Midlands all 10 (once 1st July is corrected) right before North East
\* all 0: 10 on every row of the one, 0 on every row of the other
C1_Witness ==
    /\ module = "cases" /\ AfterRolling /\ Len(regional) = 2 * Window
    /\ \A i \in 1..Window :
          /\ regional[i].area_code = "E12000004"
          /\ regional[i].publish = Rat(10) /\ regional[i].publish_7_day = Rat(10)
    /\ \A i \in Window + 1..2 * Window :
          /\ regional[i].area_code = "E12000001"
          /\ regional[i].publish = Rat(0) /\ regional[i].publish_7_day = Rat(0)

\* the regional series as served, and the place of 1st July in one of them
ServedRegion(code) == Served(RegionalCsv, code)
July1At(in) == {k \in 1..Len(in) : in[k].date = JULY_1}
\* 1st July has 3 rows before it and 3 rows after it
Flanked(in, k) == k > Span /\ k + Span <= Len(in)

\* C2: once july_1 has been applied to the groups, the table has the rows of
\* the input, area by area in the same date order and with the same
\* specimen values, and a publish value differs from the input only on a
\* row dated 1st July
C2_OnlyJuly1Publish ==
    AfterJuly1 =>
        /\ Len(regional) = Len(RegionalCsv)
        /\ \A code \in Range(RegionCodes) :
              LET in == ServedRegion(code)
                  out == Of(regional, code)
              IN  /\ Len(out) = Len(in)
                  /\ \A k \in 1..Len(in) :
                        /\ out[k].date = in[k].date
                        /\ out[k].area_name = in[k].area_name
                        /\ out[k].specimen = in[k].specimen
                        /\ in[k].date # JULY_1 => out[k].publish = in[k].publish

\* two areas in the table, and the 1st July value of one has been replaced
C2_Witness ==
    /\ module = "cases" /\ pc = "regional_rolling"
    /\ \A code \in Range(RegionCodes) : Len(Of(regional, code)) > 2 * Span
    /\ \E i \in 1..Len(regional) :
          /\ regional[i].date = JULY_1
          /\ \E x \in Range(RegionalCsv) :
                /\ x.area_code = regional[i].area_code /\ x.date = JULY_1
                /\ x.publish # regional[i].publish

\* C3: where 1st July has 3 rows before it and 3 rows after it in an area's
\* series, its corrected publish value is the mean of the publish values of
\* those six rows
C3_MeanOfSixNeighbours ==
    AfterJuly1 =>
        \A code \in Range(RegionCodes) :
            LET in == ServedRegion(code)
            IN  \A k \in July1At(in) :
                    Flanked(in, k) =>
                        \A r \in Range(regional) :
                            r.area_code = code /\ r.date = JULY_1 =>
                                r.publish = RatDivInt(
                                    Sum(<<in[k - 3].publish, in[k - 2].publish,
                                          in[k - 1].publish, in[k + 1].publish,
                                          in[k + 2].publish, in[k + 3].publish>>), 6)

\* 10, 10, 10, 100, 10, 10, 10 with 1st July in the middle: corrected to 10
C3_Witness ==
    /\ module = "cases" /\ pc = "regional_rolling"
    /\ Len(ServedRegion("E12000004")) = 2 * Span + 1
    /\ Column(ServedRegion("E12000004"), "publish")
          = <<Rat(10), Rat(10), Rat(10), Rat(100), Rat(10), Rat(10), Rat(10)>>
    /\ ServedRegion("E12000004")[Span + 1].date = JULY_1
    /\ Column(Of(regional, "E12000004"), "publish") = [k \in 1..2 * Span + 1 |-> Rat(10)]

\* C4, as the specification states it: an area whose series has no row of
\* 1st July is passed over, no error is raised and its rows stay as served
C4_AbsentDateIsNoOp ==
    module = "cases" /\ pc \notin {"regional_read", "regional_sort", "regional_july_1"} =>
        \A code \in Range(RegionCodes) :
            LET in == ServedRegion(code)
            IN  in # <<>> /\ July1At(in) = {} =>
                    /\ err = "" /\ pc # "raised"
                    /\ Column(Of(regional, code), "publish") = Column(in, "publish")

\* C5, as the specification states it: where every area reports 1st July
\* and one has fewer than 3 rows before it or after it, the correction of
\* that area is skipped, no error is raised and the value stays as served
C5_ShortSeriesSkipped ==
    /\ module = "cases"
    /\ pc \notin {"regional_read", "regional_sort", "regional_july_1"}
    /\ \A code \in Range(RegionCodes) :
          ServedRegion(code) # <<>> => July1At(ServedRegion(code)) # {}
    => \A code \in Range(RegionCodes) :
            LET in == ServedRegion(code)
            IN  \A k \in July1At(in) :
                    ~Flanked(in, k) =>
                        /\ err = "" /\ pc # "raised"
                        /\ \A r \in Range(regional) :
                              r.area_code = code /\ r.date = JULY_1 =>
                                  r.publish = in[k].publish

\* C6: with a window of 7 rows and one row enough, an area's averages are as
\* many as its rows, every one of them is defined, and the k-th is the mean
\* of the area's rows k-6..k that exist
C6_PartialWindow ==
    AfterRolling =>
        \A code \in Range(RegionCodes) :
            LET out == Of(regional, code)
            IN  /\ Len(out) = Len(ServedRegion(code))
                /\ \A k \in 1..Len(out) : \A c \in Smoothed :
                      LET first == IF k - 6 > 1 THEN k - 6 ELSE 1
                          w == [j \in 1..k - first + 1 |-> out[first + j - 1][c[1]]]
                      IN  /\ ~IsNaN(out[k][c[2]])
                          /\ out[k][c[2]] = RatDivInt(Sum(w), Len(w))

\* the series 7, 7, 7 has the averages 7, 7, 7
C6_Witness ==
    /\ module = "deaths" /\ AfterRolling
    /\ Column(Of(regional, "E12000004"), "deaths") = <<Rat(7), Rat(7), Rat(7)>>
    /\ Column(Of(regional, "E12000004"), "deaths_7_day") = <<Rat(7), Rat(7), Rat(7)>>

\* the nationwide series as served, from the first day kept, oldest first
ServedNation ==
    SetByDate({r \in Range(NationRows(api.nation, MaxNatDate)) : r.date >= CASES_FROM})

NationRolled == module = "cases" /\ pc \in {"cases_color", "cases_done", "raised"}

Indexed(code) == \E r \in Range(population) : r.Code = code

\* the population of an area: its rows of the population table added up
IndexPopulation(code) ==
    LET rows == SelectSeq(population, LAMBDA r : r.Code = code)
    IN  Sum([i \in 1..Len(rows) |-> Rat(rows[i].population)])[1]

\* C8: an area code that the population index lacks has an undefined rate
\* on every one of its rows, which is not a rate of zero; no error is
\* raised, no row is lost, and the rates of the areas the index has are
\* defined
C8_MissingPopulationIsNaN ==
    /\ AfterRegionalRate =>
          /\ err = ""
          /\ Len(regional) = Len(RegionalCsv)
          /\ \A r \in Range(regional) : \A c \in RegionalRates :
                IF Indexed(r.area_code)
                THEN r[c[2]] # F64NaN
                ELSE r[c[2]] = F64NaN /\ r[c[2]] # F64Zero
    /\ pc = "done" =>
          /\ err = ""
          /\ \A code \in Range(CouncilCodes) :
                Served(CouncilCsv, code) # <<>> => Len(Of(council_week, code)) = 1
          /\ \A r \in Range(council_week) :
                IF Indexed(r.area_code)
                THEN r[CouncilRate] # F64NaN
                ELSE r[CouncilRate] = F64NaN /\ r[CouncilRate] # F64Zero

\* North East is not in the index and East Midlands is: the rows of the one
\* have no rate, the rows of the other have theirs
C8_Witness ==
    /\ AfterRegionalRate
    /\ ~Indexed("E12000001") /\ Indexed("E12000004")
    /\ Of(regional, "E12000001") # <<>> /\ Of(regional, "E12000004") # <<>>
    /\ \A r \in Range(regional) : \A c \in RegionalRates :
          (r[c[2]] = F64NaN) <=> (r.area_code = "E12000001")

\* 6.999999999999999, the float64 before 7: (7 * 2^50 - 1) / 2^50
SevenBelow == [m |-> <<6, 1023, 1023, 1023, 1023, 1023>>, e |-> -50]

\* the rate of a row is its own value over the population of its own area,
\* times 100000, each operation rounded to float64
RateOfOwnArea ==
    /\ AfterRegionalRate =>
          \A r \in Range(regional) : \A c \in RegionalRates :
              Indexed(r.area_code) =>
                  r[c[2]] = F64Mul(F64Div(F64(r[c[1]]), IndexPopulation(r.area_code)), Per)
    /\ pc = "done" =>
          \A r \in Range(council_week) :
              Indexed(r.area_code) =>
                  r[CouncilRate] = F64Mul(F64Div(F64(r[CouncilMetric]),
                                                 IndexPopulation(r.area_code)), Per)

\* the rows of value 70 of an area of 1,000,000 people
SeventyInAMillion ==
    IF pc = "done"
    THEN {r \in Range(council_week) :
            /\ r[CouncilMetric] = Rat(70) /\ Indexed(r.area_code)
            /\ IndexPopulation(r.area_code) = 1000000}
    ELSE {}

\* C9: the rate of a row is its own value over the population of its own
\* area, times 100000, in float64; 70 over 1,000,000 gives
\* 6.999999999999999, the float64 next below 7
C9_RateInFloat64 ==
    /\ RateOfOwnArea
    /\ \A r \in SeventyInAMillion : r[CouncilRate] = SevenBelow

\* a weekly total of 70 in Hartlepool, of 1,000,000 people
C9_Witness ==
    \E r \in SeventyInAMillion :
        r.area_code = "E06000001" /\ r[CouncilRate] = SevenBelow

\* C9, as the specification states it: the rate is value over population
\* times 100000, and 70 over 1,000,000 gives exactly 7
C9_ExactlySeven ==
    /\ RateOfOwnArea
    /\ \A r \in SeventyInAMillion : r[CouncilRate] = F64Int(7)

WeekSummed == pc \in {"council_merge", "council_rate", "done"}

\* C10: the weekly table has one row for each (area_code, area_name) that
\* reports, and its total is the sum of the last 7 rows of the area by
\* date, of all its rows when they are fewer, whatever their dates
C10_LastSevenRows ==
    WeekSummed =>
        /\ Len(council_week)
              = Cardinality({code \in Range(CouncilCodes) : Served(CouncilCsv, code) # <<>>})
        /\ \A code \in Range(CouncilCodes) :
              LET in == Column(Served(CouncilCsv, code), CouncilMetric)
                  n == Len(in)
                  rows == Of(council_week, code)
              IN  n > 0 =>
                      /\ Len(rows) = 1
                      /\ rows[1].area_name = AreaName(code)
                      /\ rows[1][CouncilMetric]
                            = Sum([j \in 1..(IF n < 7 THEN n ELSE 7) |->
                                      in[n - (IF n < 7 THEN n ELSE 7) + j]])

\* Middlesbrough reports 3 days of 5: a total of 15
C10_Witness ==
    /\ WeekSummed
    /\ Column(Served(CouncilCsv, "E06000002"), CouncilMetric) = <<Rat(5), Rat(5), Rat(5)>>
    /\ Len(Of(council_week, "E06000002")) = 1
    /\ Of(council_week, "E06000002")[1][CouncilMetric] = Rat(15)

\* the rate column of the weekly table
RateOf(r) == r[CouncilRate]
ByValueRanked == pc \in {"table_name", "table_name_rank", "table_done"}

\* C11, as the specification states it: in the table by value the rows of
\* equal rate stand in the order they had in council_week, and the ranks
\* are 1, 2, ... down the rows
C11_TiesKeepOrder ==
    ByValueRanked =>
        /\ \A i \in 1..Len(df_cases) : df_cases[i].rank = i
        /\ \A i \in 1..Len(df_cases) : \A j \in i + 1..Len(df_cases) :
              RateOf(df_cases[i]) = RateOf(df_cases[j]) =>
                  df_cases[i].level_0 < df_cases[j].level_0

\* C12: the table by value has the N rows of council_week, the rates do not
\* increase down the rows (the rows without a rate come last), and the rank
\* of the k-th row is k
C12_ByValueRanks ==
    ByValueRanked =>
        /\ Len(df_cases) = Len(council_week)
        /\ \A i \in 1..Len(df_cases) : df_cases[i].rank = i
        /\ \A i \in 1..Len(df_cases) : \A j \in i + 1..Len(df_cases) :
              IF RateOf(df_cases[i]) = F64NaN THEN RateOf(df_cases[j]) = F64NaN
              ELSE \/ RateOf(df_cases[j]) = F64NaN
                   \/ ~F64Less(RateOf(df_cases[i]), RateOf(df_cases[j]))

\* three councils of falling rate that were not in that order: ranks 1, 2, 3
C12_Witness ==
    /\ ByValueRanked /\ Len(df_cases) = 3
    /\ F64Less(RateOf(df_cases[2]), RateOf(df_cases[1]))
    /\ F64Less(RateOf(df_cases[3]), RateOf(df_cases[2]))
    /\ df_cases[1].level_0 # 0
    /\ <<df_cases[1].rank, df_cases[2].rank, df_cases[3].rank>> = <<1, 2, 3>>

\* C13: the table by name has the N rows of council_week in ascending order
\* of area_name, and the rank of the k-th row is k
C13_ByNameRanks ==
    pc = "table_done" =>
        /\ Len(df_alpha) = Len(council_week)
        /\ \A i \in 1..Len(df_alpha) : df_alpha[i].rank = i
        /\ \A i \in 1..Len(df_alpha) : \A j \in i + 1..Len(df_alpha) :
              StrRank(df_alpha[i].area_name) <= StrRank(df_alpha[j].area_name)

\* Darlington, Hartlepool, Middlesbrough: ranks 1, 2, 3, the last code first
C13_Witness ==
    /\ pc = "table_done"
    /\ Column(df_alpha, "area_name") = <<"Darlington", "Hartlepool", "Middlesbrough">>
    /\ Column(df_alpha, "area_code") = <<"E06000005", "E06000001", "E06000002">>
    /\ Column(df_alpha, "rank") = <<1, 2, 3>>

\* C14: each of the two tables has every row of council_week once, with its
\* name and its rate, and council_week is still what prepare_council_*_data
\* made of the rows served
C14_SameRowsInBoth ==
    pc = "table_done" =>
        /\ council_week = CouncilWeekOf(module, api.council, population)
        /\ \A t \in {df_cases, df_alpha} :
              /\ Len(t) = Len(council_week)
              /\ \A r \in Range(council_week) :
                    LET hits == {i \in 1..Len(t) : t[i].area_code = r.area_code}
                    IN  /\ Cardinality(hits) = 1
                        /\ \A i \in hits :
                              t[i].area_name = r.area_name /\ RateOf(t[i]) = RateOf(r)

\* three councils, one of them without a rate, in both tables
C14_Witness ==
    /\ pc = "table_done" /\ Len(council_week) = 3
    /\ \E r \in Range(council_week) : RateOf(r) = F64NaN
    /\ \E r \in Range(council_week) : RateOf(r) # F64NaN
    /\ Len(df_cases) = 3 /\ Len(df_alpha) = 3
    /\ Column(df_cases, "area_code") # Column(df_alpha, "area_code")

\* the area reports, but not 1st July; the area reports 1st July with 3 rows
\* on either side
LacksJuly1(code) == ServedRegion(code) # <<>> /\ July1At(ServedRegion(code)) = {}
HasJuly1Flanked(code) ==
    \E k \in July1At(ServedRegion(code)) : Flanked(ServedRegion(code), k)

\* C15, as the specification states it: where one region lacks 1st July and
\* the other is whole, the preparation ends without an error
C15_OneAreaNeverAborts ==
    /\ module = "cases"
    /\ \E bad \in Range(RegionCodes) : \E good \in Range(RegionCodes) :
          LacksJuly1(bad) /\ HasJuly1Flanked(good)
    => pc # "raised" /\ err = ""

\* C16: the population index has one entry for each code of the population
\* table, whose population is the sum over the rows of the code
C16_IndexSumsByCode ==
    regional_pop # <<>> =>
        LET codes == {r.Code : r \in Range(population)}
        IN  /\ Len(regional_pop) = Cardinality(codes)
            /\ \A c \in codes :
                  LET hits == {i \in 1..Len(regional_pop) : regional_pop[i].Code = c}
                  IN  /\ Cardinality(hits) = 1
                      /\ \A i \in hits : regional_pop[i].population = IndexPopulation(c)

\* East Midlands: 400,000 + 350,000 + 250,000 over its three rows
C16_Witness ==
    /\ pc = "regional_merge"
    /\ Cardinality({r \in Range(population) : r.Code = "E12000004"}) = Len(Ages)
    /\ \E r \in Range(regional_pop) : r.Code = "E12000004" /\ r.population = 1000000
    /\ Len(regional_pop) = 5

\* the publish value of the k-th row of a series once 1st July is corrected
CorrectedPublish(in, k) ==
    IF in[k].date = JULY_1
    THEN RatDivInt(Sum(<<in[k - 3].publish, in[k - 2].publish, in[k - 1].publish,
                         in[k + 1].publish, in[k + 2].publish, in[k + 3].publish>>), 6)
    ELSE in[k].publish

\* C17: in the regional cases table, for an area whose 1st July has 3 rows
\* on either side, the publish average of a row is the mean over its window
\* of the served values with 1st July corrected, and its rate is that
\* average over the population times 100000
C17_CorrectThenSmoothThenRate ==
    module = "cases" /\ AfterRegionalRate =>
        \A code \in Range(RegionCodes) :
            HasJuly1Flanked(code) =>
                LET in == ServedRegion(code)
                    out == Of(regional, code)
                    avg(k) == LET first == IF k - 6 > 1 THEN k - 6 ELSE 1
                              IN  RatDivInt(Sum([j \in 1..k - first + 1 |->
                                                    CorrectedPublish(in, first + j - 1)]),
                                            k - first + 1)
                IN  \A k \in 1..Len(in) :
                        /\ out[k].publish_7_day = avg(k)
                        /\ Indexed(code) =>
                              out[k].publish_per_100k
                                  = F64Mul(F64Div(F64(avg(k)), IndexPopulation(code)), Per)

\* 10, 10, 10, 100, 10, 10, 10: an average of 10 on 1st July, not 130 / 4,
\* and a rate of 1 per 100,000 among 1,000,000 people, not 10
C17_Witness ==
    /\ module = "cases" /\ AfterRegionalRate
    /\ Column(ServedRegion("E12000004"), "publish")
          = <<Rat(10), Rat(10), Rat(10), Rat(100), Rat(10), Rat(10), Rat(10)>>
    /\ \E r \in Range(regional) :
          /\ r.area_code = "E12000004" /\ r.date = JULY_1
          /\ r.publish_7_day = Rat(10)
          /\ r.population = Rat(1000000)
          /\ r.publish_per_100k = F64Int(1)

\* C18, as the specification states it: the corrected value of an area is
\* the mean of its own six neighbouring rows, also where another code is
\* served under the same name
C18_OwnNeighboursOnly ==
    module = "cases" /\ pc = "regional_rolling" =>
        \A code \in DOMAIN api.region :
            LET in == ServedRegion(code)
            IN  \A k \in July1At(in) :
                    Flanked(in, k) =>
                        \A r \in Range(regional) :
                            r.area_code = code /\ r.date = JULY_1 =>
                                r.publish = CorrectedPublish(in, k)

DateOrdered(df) ==
    \A i \in 1..Len(df) : \A j \in i + 1..Len(df) :
        df[i].area_code = df[j].area_code => df[i].date < df[j].date

\* C20: the table is in ascending date order within each area when july_1
\* looks 1st July up, when the rolling means are taken and when the last 7
\* rows are added up; the nationwide table is in ascending date order after
\* the date filter, when its rolling means are taken
C20_DateOrderWhenWindowed ==
    /\ pc \in {"regional_july_1", "regional_rolling"} => DateOrdered(regional)
    /\ pc = "council_week" => DateOrdered(council)
    /\ pc \in {"cases_rolling", "deaths_rolling"} =>
          \A i \in 1..Len(cases) : \A j \in i + 1..Len(cases) :
              cases[i].date < cases[j].date

\* two councils, ten rows, about to be added up
C20_Witness ==
    /\ pc = "council_week" /\ Len(council) = Window + Span
    /\ \A code \in Range(CouncilCodes) : Of(council, code) # <<>>
    /\ council[1].date < council[Len(council)].date

---------------------------------------------------------------------------
(* Properties of main.py and of the order of the calls                     *)

\* the statement main() is about to run, <<>> if none
Current ==
    IF pc = "body" /\ step \in 1..Len(Body(Entry(module).main))
    THEN <<Body(Entry(module).main)[step]>>
    ELSE <<>>

\* C21: in every call main.py makes, each parameter of the module's main()
\* holds the object of its own meaning (population the population table,
\* template the template, plot_config the mode-bar configuration), and the
\* population index is built from the population table
C21_BoundByMeaning ==
    pc = "body" =>
        /\ \A p \in Range(Params(Entry(module).main)) : env[Local(p)] = Global[p]
        /\ \A i \in 1..Len(Current) :
              Attr("population") \in Current[i].frames =>
                  env[Attr("population")] = Global.population

\* the modules whose main() was called, in the order of the calls
Mains ==
    LET mains == SelectSeq(called, LAMBDA c : c.call = "main")
    IN  [i \in 1..Len(mains) |-> mains[i].module]

\* true when the call was made and an earlier call is to the method given
CalledAfter(method, earlier) ==
    \A i \in 1..Len(called) :
        called[i].call = method =>
            \E j \in 1..(i - 1) :
                /\ called[j].call = earlier
                /\ \A k \in j..i : called[k].module = called[i].module

\* C22: in covid_cases.main and covid_deaths.main every name a statement
\* reads was set by an earlier statement: regional_pop by
\* prepare_regional_* before prepare_council_* is called, the prepared
\* tables before the graph and table methods, regions by
\* graph_regional_cases_publish before graph_regional_cases_specimen
C22_SetBeforeRead ==
    /\ \A i \in 1..Len(Current) :
          module \in {"cases", "deaths"} =>
              \A n \in Current[i].reads : n \in DOMAIN env
    /\ CalledAfter("prepare_council_cases_data", "prepare_regional_cases_data")
    /\ CalledAfter("prepare_council_deaths_data", "prepare_regional_deaths_data")
    /\ CalledAfter("graph_regional_cases_specimen", "graph_regional_cases_publish")
    /\ CalledAfter("graph_daily_cases_uk", "prepare_cases_data")
    /\ CalledAfter("table_cases_local_area", "prepare_council_cases_data")
    /\ CalledAfter("table_deaths_local_area", "prepare_council_deaths_data")

\* graph_regional_cases_specimen about to run, regions set by
\* graph_regional_cases_publish
C22_Witness ==
    /\ module = "cases"
    /\ Current # <<>>
    /\ Current[1].call = "graph_regional_cases_specimen"
    /\ Attr("regions") \in DOMAIN env
    /\ env[Attr("regions")].of = "graph_regional_cases_publish"

\* the names of the line up to the first that is no key of modules_dict
RECURSIVE KnownPrefix(_)
KnownPrefix(names) ==
    IF names = <<>> \/ Head(names) \notin Keys THEN <<>>
    ELSE <<Head(names)>> \o KnownPrefix(Tail(names))

\* C26: when main() is over, 'all' has run cases, deaths, hospital and
\* vaccinations once each in that order; any other line has run the names
\* between its ', ' separators in the order typed, a name typed twice run
\* twice, and an unknown name has raised only after the names before it ran
C26_RunsInTypedOrder ==
    pc \in {"end", "raised"} /\ typed # <<>> =>
        IF typed = <<"all">>
        THEN /\ Mains = <<"cases", "deaths", "hospital", "vaccinations">>
             /\ err = ""
        ELSE /\ Mains = KnownPrefix(split(typed))
             /\ err = IF \E i \in 1..Len(split(typed)) : split(typed)[i] \notin Keys
                      THEN "KeyError" ELSE ""

\* the rows of the table before the merge are the rows after it, one for
\* one and in the same order, each with the values it had
RowsKept(before, after) ==
    /\ Len(after) = Len(before)
    /\ \A i \in 1..Len(before) :
          \A c \in DOMAIN before[i] \ {"index"} : after[i][c] = before[i][c]

\* C23: the merge of the regional table and of the council table with the
\* population index gives one row for each row of the table, in the same
\* order and with the row's own values: a row without a match is kept (its
\* population is NaN) and no row is doubled, the index having one row for
\* each Code
C23_OneRowPerRow ==
    [][/\ (MergeRegional \/ DeathsMergeRegional) =>
              /\ RowsKept(regional, regional')
              /\ \A i \in 1..Len(regional') :
                    regional'[i].Code \in {regional'[i].area_code, "NaN"}
       /\ (MergeCouncil \/ DeathsMergeCouncil) =>
              /\ RowsKept(council_week, council_week')
              /\ \A i \in 1..Len(council_week') :
                    council_week'[i].Code \in {council_week'[i].area_code, "NaN"}
       /\ \A i \in 1..Len(regional_pop) : \A j \in 1..Len(regional_pop) :
              regional_pop[i].Code = regional_pop[j].Code => i = j]_vars

\* the regional table joined: the rows of one region have a population
\* and those of the other have none
C23_Witness ==
    /\ pc = "regional_rate"
    /\ \E i \in 1..Len(regional) : IsNaN(regional[i].population)
    /\ \E i \in 1..Len(regional) :
          /\ ~IsNaN(regional[i].population)
          /\ regional[i].Code = regional[i].area_code
    /\ Len(regional_pop) < Len(population)

\* C24: in the table by value every council without a rate stands below
\* all the councils that have one and has the rank of its row, so that N
\* councils make ranks 1..N; in the table by name it stands where its name
\* belongs in the alphabet, with the rank of that row
C24_UndefinedRateRanked ==
    /\ ByValueRanked =>
          /\ {df_cases[i].rank : i \in 1..Len(df_cases)} = 1..Len(council_week)
          /\ \A i \in 1..Len(df_cases) :
                RateOf(df_cases[i]) = F64NaN =>
                    /\ df_cases[i].rank = i
                    /\ \A j \in 1..Len(df_cases) :
                          RateOf(df_cases[j]) # F64NaN => j < i
    /\ pc = "table_done" =>
          \A i \in 1..Len(df_alpha) :
              RateOf(df_alpha[i]) = F64NaN =>
                  /\ df_alpha[i].rank = i
                  /\ i = 1 + Cardinality({r \in Range(council_week) :
                              StrRank(r.area_name) < StrRank(df_alpha[i].area_name)})

\* Darlington has no rate: last of three by value with rank 3, first by
\* name with rank 1
C24_Witness ==
    /\ pc = "table_done" /\ Len(df_cases) = 3 /\ Len(df_alpha) = 3
    /\ RateOf(df_cases[1]) # F64NaN
    /\ df_cases[3].area_name = "Darlington"
    /\ RateOf(df_cases[3]) = F64NaN /\ df_cases[3].rank = 3
    /\ df_alpha[1].area_name = "Darlington"
    /\ RateOf(df_alpha[1]) = F64NaN /\ df_alpha[1].rank = 1

---------------------------------------------------------------------------
(* Properties of the vaccination tables                                    *)

\* the rows served from VACCINE_FROM on, oldest first
ServedDoses ==
    SetByDate({r \in Range(api.vaccine) : r.date >= VACCINE_FROM})

\* C25: the daily series is the first difference of the cumulative totals
\* in date order, undefined on the first row; the 7 day average is
\* undefined on the first 7 rows (positions 0..6) and at every later
\* position k it is (total[k] - total[k-7]) / 7
C25_DailyAndAverage ==
    pc \in {"vaccine_strings", "vaccine_done"} =>
        /\ Len(vaccine) = Len(ServedDoses)
        /\ \A k \in 1..Len(vaccine) :
              /\ vaccine[k].date = ServedDoses[k].date
              /\ vaccine[k].total_first = ServedDoses[k].total_first
              /\ vaccine[k].total_second = ServedDoses[k].total_second
              /\ \A c \in {<<"total_first", "daily_1", "daily_1_7_day_avg">>,
                           <<"total_second", "daily_2", "daily_2_7_day_avg">>} :
                    /\ vaccine[k][c[2]] =
                          IF k = 1 THEN NaN
                          ELSE RatSub(vaccine[k][c[1]], vaccine[k - 1][c[1]])
                    /\ vaccine[k][c[3]] =
                          IF k <= Window THEN NaN
                          ELSE RatDivInt(RatSub(vaccine[k][c[1]],
                                                vaccine[k - Window][c[1]]), Window)

\* nine rows: the averages at positions 7 and 8 are defined and differ
C25_Witness ==
    /\ pc = "vaccine_done"
    /\ Len(vaccine) = Window + 2
    /\ IsNaN(vaccine[Window].daily_1_7_day_avg)
    /\ ~IsNaN(vaccine[Window + 1].daily_1_7_day_avg)
    /\ ~IsNaN(vaccine[Window + 2].daily_1_7_day_avg)
    /\ vaccine[Window + 1].daily_1_7_day_avg # vaccine[Window + 2].daily_1_7_day_avg

---------------------------------------------------------------------------
(* Properties of the nationwide figures                                    *)

Coloured == pc \in {"cases_done", "cases_graphed", "deaths_done", "deaths_graphed"}
Graphed == pc \in {"cases_graphed", "deaths_graphed"}

---------------------------------------------------------------------------
(* Properties of the table by age group                                    *)

\* the Thursdays among the 7 days that end today
ThursdaysOfWeek == {d \in (today - 6)..today : weekday(d) = 3}

\* C28: get_recent_thursday returns the one Thursday d with
\* today - 6 <= d <= today, whatever day today is: the loop over the 7
\* days never ends without a return
C28_RecentThursday ==
    pc \in {"age_read", "age_table", "age_done", "raised"} =>
        /\ recent_thursday # <<"None">>
        /\ Cardinality(ThursdaysOfWeek) = 1
        /\ \A d \in ThursdaysOfWeek : recent_thursday = strftime(d)
        /\ err # "TypeError"

\* on Wednesday 5th May 2021 the Thursday is 29th April, six days back
C28_Witness ==
    /\ pc = "age_read"
    /\ today = 737915
    /\ weekday(today) = 2
    /\ recent_thursday = <<29, "April", 2021>>

RECURSIVE SumList(_)
SumList(l) == IF l = <<>> THEN 0 ELSE Head(l) + SumList(Tail(l))

\* C29: the 12 age groups part the people of England, every age from 0 to
\* 89 and '90+' being in one group and no other, so that the 12 sums add up
\* to the whole of England; the 24 rows of the table are the 12 groups with
\* '2 Doses' and then the 12 groups with '1+ Doses', and row by row the
\* population is that of the row's own group
C29_GroupsPartition ==
    /\ \A a \in Range(value_vars) :
          Cardinality({g \in 1..Len(AgeGroups) : a \in AgeGroups[g]}) = 1
    /\ pc \in {"age_thursday", "age_read", "age_table", "age_done"} =>
          /\ Len(age_group_pop) = 12
          /\ SumList(age_group_pop) =
                SumPopulation(Where(population, "Name", "ENGLAND"))
          /\ \A g \in 1..12 :
                age_group_pop[g] =
                    SumPopulation(SelectSeq(population, LAMBDA r :
                        r.Name = "ENGLAND" /\ r.age \in AgeGroups[g]))
    /\ pc = "age_done" =>
          /\ Len(vaccine_age) = 24
          /\ \A i \in 1..24 :
                LET g == IF i <= 12 THEN i ELSE i - 12
                IN  /\ vaccine_age[i].population = age_group_pop[g]
                    /\ vaccine_age[i].dose = IF i <= 12 THEN "2 Doses" ELSE "1+ Doses"
                    /\ vaccine_age[i].age = vaccine_age[g].age
          /\ \A i \in 1..12 : \A j \in 1..12 :
                vaccine_age[i].age = vaccine_age[j].age => i = j

\* the table of 24 rows: the under 30s first in each half, the over 80s last
C29_Witness ==
    /\ pc = "age_done"
    /\ Len(vaccine_age) = 24
    /\ age_group_pop[1] # age_group_pop[12]
    /\ vaccine_age[1].age = "Under 30" /\ vaccine_age[1].dose = "2 Doses"
    /\ vaccine_age[13].age = "Under 30" /\ vaccine_age[13].dose = "1+ Doses"
    /\ vaccine_age[13].population = age_group_pop[1]
    /\ vaccine_age[24].age = "Over 80"
    /\ vaccine_age[24].population = age_group_pop[12]

\* value / population * 100000 with nothing rounded but by float64 itself
Unrounded(value, pop) ==
    IF IsNaN(value) \/ IsNaN(pop) THEN F64NaN
    ELSE F64Mul(F64Div(F64(value), pop[1]), Per)

\* the float64 of x to 2 decimals: the float64 nearest to the hundredth
\* nearest to x
ToTwoDecimals(x) == IF x = F64NaN THEN F64NaN ELSE F64(<<Hundredths(x), 100>>)

Drawn == pc = "table_drawn"

\* C30: the regional averages and rates and the councils' weekly totals and
\* rates are stored as computed, with no rounding; only the strings of the
\* regional table and the cells of the councils' tables hold the values
\* rounded to 2 decimals; and two councils whose rates show as the same
\* value in the table by value stand in the order of their stored rates
C30_RoundedForDisplayOnly ==
    /\ AfterRegionalRate =>
          \A code \in Range(RegionCodes) :
              LET out == Of(regional, code)
              IN  \A k \in 1..Len(out) :
                      /\ \A c \in Smoothed :
                            LET first == IF k - 6 > 1 THEN k - 6 ELSE 1
                                w == [j \in 1..k - first + 1 |-> out[first + j - 1][c[1]]]
                            IN  /\ out[k][c[2]] = RatDivInt(Sum(w), Len(w))
                                /\ out[k][c[2] \o "_str"] = FloatStr(out[k][c[2]])
                      /\ \A c \in RegionalRates :
                            /\ out[k][c[2]] = Unrounded(out[k][c[1]], out[k].population)
                            /\ out[k][c[2] \o "_str"] = F64Str(out[k][c[2]])
    /\ pc = "done" =>
          \A code \in Range(CouncilCodes) :
              LET in == Column(Served(CouncilCsv, code), CouncilMetric)
                  n == Len(in)
                  last == IF n > Week THEN SubSeq(in, n - Week + 1, n) ELSE in
              IN  \A r \in Range(Of(council_week, code)) :
                      /\ r[CouncilMetric] = Sum(last)
                      /\ r[CouncilRate] = Unrounded(r[CouncilMetric], r.population)
    /\ Drawn =>
          /\ \A r \in Range(council_week) \cup Range(df_cases) \cup Range(df_alpha) :
                r[CouncilRate] = Unrounded(r[CouncilMetric], r.population)
          /\ fig[1].cells[3] = [i \in 1..Len(df_cases) |-> ToTwoDecimals(RateOf(df_cases[i]))]
          /\ fig[2].cells[3] = [i \in 1..Len(df_alpha) |-> ToTwoDecimals(RateOf(df_alpha[i]))]
          /\ \A i \in 1..Len(df_cases) : \A j \in i + 1..Len(df_cases) :
                /\ fig[1].cells[3][i] = fig[1].cells[3][j]
                /\ RateOf(df_cases[i]) # RateOf(df_cases[j])
                => F64Less(RateOf(df_cases[j]), RateOf(df_cases[i]))

\* Darlington right above Hartlepool, both shown at the same value, the
\* stored rate of Darlington the greater, neither stored at the value shown
C30_Witness ==
    /\ Drawn
    /\ \E i \in 1..Len(df_cases) - 1 :
          /\ df_cases[i].area_name = "Darlington"
          /\ df_cases[i + 1].area_name = "Hartlepool"
          /\ fig[1].cells[3][i] = fig[1].cells[3][i + 1]
          /\ F64Less(RateOf(df_cases[i + 1]), RateOf(df_cases[i]))
          /\ RateOf(df_cases[i]) # fig[1].cells[3][i]

====
